---- MODULE Spec2Model ----
(***************************************************************************)
(* FWD Vocoder Discord bot: the job queue of index.js (runQueue, the       *)
(* interactionCreate handler, downloadAndConvert) and the vocoder engine   *)
(* (runVocoder and its helpers).                                           *)
(*                                                                         *)
(* JavaScript runs one callback at a time, so every action below is one    *)
(* run of synchronous code: from the event that resumes it to the next     *)
(* await.  JavaScript numbers are IEEE-754 doubles; the arithmetic of      *)
(* runVocoder is modelled bit for bit (53-bit significand, round to        *)
(* nearest, ties to even).                                                 *)
(***************************************************************************)
EXTENDS Integers, Sequences, FiniteSets, TLC

\* ------------------------------------------------------------------------
\* Bounds of the model
\* ------------------------------------------------------------------------
MaxJobs == 2            \* interactions received
MaxFrames == 27         \* longest decoded input, in sample frames
MaxConvFrames == 1      \* longest FFmpeg output inside a queued job
WidthSlack == 5         \* how far outside 0..100 a direct caller's width goes
MaxFiles == 2           \* files found in the temp directory

\* ------------------------------------------------------------------------
\* IEEE-754 double arithmetic (the Number type)
\* A double is kept as [neg, hi, lo, exp]: value = (-1)^neg * (hi*2^27+lo) * 2^exp,
\* with a 53-bit significand whose top bit is set, or hi = lo = 0 for zero.
\* ------------------------------------------------------------------------
MantissaBits == 53
HiBits == 26
LoBits == 27
ChunkBits == 15
GuardBits == 30

RECURSIVE Pow2(_)
Pow2(n) == IF n = 0 THEN 1
           ELSE LET h == Pow2(n \div 2) IN IF n % 2 = 0 THEN h * h ELSE 2 * h * h

Base == Pow2(ChunkBits)

Zeros(n) == [i \in 1..n |-> 0]

PadLeft(b, n) == Zeros(n - Len(b)) \o b

\* the bit string b without its leading zeros
StripLead(b) ==
  LET ones == {i \in 1..Len(b) : b[i] = 1}
  IN IF ones = {} THEN <<>>
     ELSE SubSeq(b, CHOOSE i \in ones : \A j \in ones : i <= j, Len(b))

\* number of zero bits at the end of a bit string that has a one
TrailZeros(b) ==
  LET ones == {i \in 1..Len(b) : b[i] = 1}
  IN Len(b) - (CHOOSE i \in ones : \A j \in ones : i >= j)

\* n as k bits, most significant bit first
BitsN(n, k) == [i \in 1..k |-> (n \div Pow2(k - i)) % 2]

Bits(n) == StripLead(BitsN(n, 31))

RECURSIVE Val(_)
Val(b) ==
  IF Len(b) = 0 THEN 0
  ELSE IF Len(b) = 1 THEN b[1]
  ELSE LET h == Len(b) \div 2
       IN Val(SubSeq(b, 1, Len(b) - h)) * Pow2(h) + Val(SubSeq(b, Len(b) - h + 1, Len(b)))

\* a bit string as ChunkBits-bit digits, most significant digit first, and back
ToChunks(b) ==
  LET n == (Len(b) + ChunkBits - 1) \div ChunkBits
      p == PadLeft(b, n * ChunkBits)
  IN [j \in 1..n |-> Val(SubSeq(p, (j - 1) * ChunkBits + 1, j * ChunkBits))]

FromChunks(ch) ==
  [i \in 1..(ChunkBits * Len(ch)) |->
     (ch[((i - 1) \div ChunkBits) + 1] \div Pow2(ChunkBits - 1 - ((i - 1) % ChunkBits))) % 2]

FZero == [neg |-> FALSE, hi |-> 0, lo |-> 0, exp |-> 0]

IsZero(x) == x.hi = 0 /\ x.lo = 0

\* the significand as a bit string, most significant bit first
Sig(x) == IF IsZero(x) THEN <<>> ELSE BitsN(x.hi, HiBits) \o BitsN(x.lo, LoBits)

Pack(neg, sig, e) ==
  [neg |-> neg, hi |-> Val(SubSeq(sig, 1, HiBits)),
   lo |-> Val(SubSeq(sig, HiBits + 1, MantissaBits)), exp |-> e]

\* b + 1 on a bit string; an all-ones string grows by one bit
Inc(b) ==
  LET zeros == {i \in 1..Len(b) : b[i] = 0}
  IN IF zeros = {} THEN <<1>> \o Zeros(Len(b))
     ELSE LET p == CHOOSE i \in zeros : \A j \in zeros : i >= j
          IN [i \in 1..Len(b) |-> IF i < p THEN b[i] ELSE IF i = p THEN 1 ELSE 0]

\* the double nearest to the exact magnitude b * 2^e (sticky: more nonzero bits
\* follow below b), ties to even
RoundNearestEven(neg, b0, e, sticky) ==
  LET b == StripLead(b0) IN
  IF b = <<>> THEN FZero
  ELSE IF Len(b) <= MantissaBits
       THEN Pack(neg, b \o Zeros(MantissaBits - Len(b)), e - (MantissaBits - Len(b)))
  ELSE LET keep  == SubSeq(b, 1, MantissaBits)
           rest  == SubSeq(b, MantissaBits + 1, Len(b))
           low   == sticky \/ (\E i \in 2..Len(rest) : rest[i] = 1)
           up    == rest[1] = 1 /\ (low \/ keep[MantissaBits] = 1)
           inc   == Inc(keep)
           e2    == e + Len(rest)
       IN IF ~up THEN Pack(neg, keep, e2)
          ELSE IF Len(inc) > MantissaBits
               THEN Pack(neg, SubSeq(inc, 1, MantissaBits), e2 + 1)
               ELSE Pack(neg, inc, e2)

FromInt(n) == IF n < 0 THEN RoundNearestEven(TRUE, Bits(0 - n), 0, FALSE)
              ELSE RoundNearestEven(FALSE, Bits(n), 0, FALSE)

\* the significand of y as an odd integer c and a shift: |y| = c * 2^(y.exp + shift)
SmallSig(y) ==
  LET tz == TrailZeros(Sig(y))
  IN [c |-> Val(SubSeq(Sig(y), 1, MantissaBits - tz)), shift |-> tz]

\* long division of digits ch[k..] by c with incoming remainder r
RECURSIVE DivRec(_, _, _, _)
DivRec(ch, k, c, r) ==
  IF k > Len(ch) THEN [q |-> <<>>, rem |-> r]
  ELSE LET t  == r * Base + ch[k]
           nx == DivRec(ch, k + 1, c, t % c)
       IN [q |-> <<t \div c>> \o nx.q, rem |-> nx.rem]

\* x / y, for a divisor y whose significand is a small integer times a power of 2
FDiv(x, y) ==
  IF IsZero(x) THEN FZero
  ELSE LET s == SmallSig(y)
           d == DivRec(ToChunks(Sig(x) \o Zeros(GuardBits)), 1, s.c, 0)
       IN RoundNearestEven(x.neg # y.neg, FromChunks(d.q),
                           x.exp - GuardBits - (y.exp + s.shift), d.rem # 0)

\* digits ch[k..] times c: the product's digits and the carry out
RECURSIVE MulRec(_, _, _)
MulRec(ch, k, c) ==
  IF k > Len(ch) THEN [d |-> <<>>, carry |-> 0]
  ELSE LET nx == MulRec(ch, k + 1, c)
           t  == ch[k] * c + nx.carry
       IN [d |-> <<t % Base>> \o nx.d, carry |-> t \div Base]

\* x * y, for a factor y whose significand is a small integer times a power of 2
FMul(x, y) ==
  IF IsZero(x) \/ IsZero(y) THEN FZero
  ELSE LET s == SmallSig(y)
           m == MulRec(ToChunks(Sig(x)), 1, s.c)
       IN RoundNearestEven(x.neg # y.neg, Bits(m.carry) \o FromChunks(m.d),
                           x.exp + y.exp + s.shift, FALSE)

MagLess(x, y) ==
  IF IsZero(y) THEN FALSE
  ELSE IF IsZero(x) THEN TRUE
  ELSE IF x.exp # y.exp THEN x.exp < y.exp
  ELSE IF x.hi # y.hi THEN x.hi < y.hi
  ELSE x.lo < y.lo

FLess(x, y) ==
  IF IsZero(x) /\ IsZero(y) THEN FALSE
  ELSE IF x.neg /\ ~IsZero(x) THEN (IF y.neg /\ ~IsZero(y) THEN MagLess(y, x) ELSE TRUE)
  ELSE IF y.neg /\ ~IsZero(y) THEN FALSE
  ELSE MagLess(x, y)

FLeq(x, y) == ~FLess(y, x)

\* Math.min
MathMin(x, y) == IF FLess(y, x) THEN y ELSE x

\* digits a[k..] + b[k..] (equal lengths): the sum's digits and the carry out
RECURSIVE AddRec(_, _, _)
AddRec(a, b, k) ==
  IF k > Len(a) THEN [d |-> <<>>, carry |-> 0]
  ELSE LET nx == AddRec(a, b, k + 1)
           t  == a[k] + b[k] + nx.carry
       IN [d |-> <<t % Base>> \o nx.d, carry |-> t \div Base]

\* digits a[k..] - b[k..] (equal lengths, a >= b): the difference and the borrow out
RECURSIVE SubRec(_, _, _)
SubRec(a, b, k) ==
  IF k > Len(a) THEN [d |-> <<>>, borrow |-> 0]
  ELSE LET nx == SubRec(a, b, k + 1)
           t  == a[k] - b[k] - nx.borrow
       IN [d |-> <<(t + Base) % Base>> \o nx.d, borrow |-> IF t < 0 THEN 1 ELSE 0]

FNeg(x) == [x EXCEPT !.neg = ~x.neg]

FAdd(x, y) ==
  IF IsZero(x) THEN y
  ELSE IF IsZero(y) THEN x
  ELSE LET e  == IF x.exp < y.exp THEN x.exp ELSE y.exp
           xa == Sig(x) \o Zeros(x.exp - e)
           ya == Sig(y) \o Zeros(y.exp - e)
           n  == IF Len(xa) > Len(ya) THEN Len(xa) ELSE Len(ya)
           A  == ToChunks(PadLeft(xa, n))
           B  == ToChunks(PadLeft(ya, n))
           sum == AddRec(A, B, 1)
       IN IF x.neg = y.neg
          THEN RoundNearestEven(x.neg, Bits(sum.carry) \o FromChunks(sum.d), e, FALSE)
          ELSE IF MagLess(x, y) THEN RoundNearestEven(y.neg, FromChunks(SubRec(B, A, 1).d), e, FALSE)
          ELSE IF MagLess(y, x) THEN RoundNearestEven(x.neg, FromChunks(SubRec(A, B, 1).d), e, FALSE)
          ELSE FZero

FSub(x, y) == FAdd(x, FNeg(y))

\* Math.floor of a non-negative double, as an integer
MathFloor(x) ==
  IF IsZero(x) THEN 0
  ELSE IF x.exp >= 0 THEN Val(Sig(x)) * Pow2(x.exp)
  ELSE IF MantissaBits + x.exp <= 0 THEN 0
  ELSE Val(SubSeq(Sig(x), 1, MantissaBits + x.exp))

\* ------------------------------------------------------------------------
\* Shaping tables (getAbsCurve, getSoftClipCurve) and their use by a WaveShaper
\* ------------------------------------------------------------------------
Float32Bits == 24

\* Math.abs
MathAbs(x) == [x EXCEPT !.neg = FALSE]

\* a store into a Float32Array: the nearest single-precision value, ties to even
Fround(x) ==
  IF IsZero(x) THEN x
  ELSE LET b    == Sig(x)
           keep == SubSeq(b, 1, Float32Bits)
           rest == SubSeq(b, Float32Bits + 1, MantissaBits)
           up   == rest[1] = 1 /\ (keep[Float32Bits] = 1 \/ \E i \in 2..Len(rest) : rest[i] = 1)
           inc  == Inc(keep)
       IN IF ~up THEN Pack(x.neg, keep \o Zeros(Len(rest)), x.exp)
          ELSE IF Len(inc) > Float32Bits
               THEN Pack(x.neg, <<1>> \o Zeros(MantissaBits - 1), x.exp + 1)
               ELSE Pack(x.neg, inc \o Zeros(Len(rest)), x.exp)

\* digits a plus digits b (equal lengths, no carry out)
AddDigits(a, b) == AddRec(a, b, 1).d

\* the exact product of two significands, as digits
SigProduct(x, y) ==
  LET xc == ToChunks(Sig(x))
      yc == ToChunks(Sig(y))
      n  == Len(xc) + Len(yc) + 1
      Term(k) == LET m == MulRec(xc, 1, yc[k])
                 IN  [i \in 1..(n - (1 + Len(m.d) + (Len(yc) - k))) |-> 0]
                     \o <<m.carry>> \o m.d \o [i \in 1..(Len(yc) - k) |-> 0]
      Partial[k \in 0..Len(yc)] ==
        IF k = 0 THEN [i \in 1..n |-> 0] ELSE AddDigits(Partial[k - 1], Term(k))
  IN Partial[Len(yc)]

\* x * y for any two doubles
FMulFull(x, y) ==
  IF IsZero(x) \/ IsZero(y) THEN FZero
  ELSE RoundNearestEven(x.neg # y.neg, FromChunks(SigProduct(x, y)), x.exp + y.exp, FALSE)

\* 2 / Math.PI: the double nearest to the quotient of the doubles 2 and Math.PI
TwoOverPi == [neg |-> FALSE, hi |-> 42722829, lo |-> 97110147, exp |-> -53]

\* Math.atan at the arguments the sampled table entries use (nearest doubles)
AtanTable ==
  ([neg |-> TRUE, hi |-> 33554432, lo |-> 0, exp |-> -51]
       :> [neg |-> TRUE, hi |-> 37149746, lo |-> 49004100, exp |-> -52])
  @@ ([neg |-> TRUE, hi |-> 67106816, lo |-> 0, exp |-> -52]
       :> [neg |-> TRUE, hi |-> 37149336, lo |-> 101348984, exp |-> -52])
  @@ ([neg |-> TRUE, hi |-> 58724352, lo |-> 0, exp |-> -52]
       :> [neg |-> TRUE, hi |-> 35288533, lo |-> 99036380, exp |-> -52])
  @@ ([neg |-> TRUE, hi |-> 58722304, lo |-> 0, exp |-> -52]
       :> [neg |-> TRUE, hi |-> 35288029, lo |-> 87853925, exp |-> -52])
  @@ ([neg |-> TRUE, hi |-> 58720256, lo |-> 0, exp |-> -52]
       :> [neg |-> TRUE, hi |-> 35287525, lo |-> 73113759, exp |-> -52])
  @@ ([neg |-> TRUE, hi |-> 58718208, lo |-> 0, exp |-> -52]
       :> [neg |-> TRUE, hi |-> 35287021, lo |-> 54815631, exp |-> -52])
  @@ ([neg |-> TRUE, hi |-> 50335744, lo |-> 0, exp |-> -52]
       :> [neg |-> TRUE, hi |-> 65956690, lo |-> 105607641, exp |-> -53])
  @@ ([neg |-> TRUE, hi |-> 50333696, lo |-> 0, exp |-> -52]
       :> [neg |-> TRUE, hi |-> 65955430, lo |-> 78604457, exp |-> -53])
  @@ ([neg |-> TRUE, hi |-> 50331648, lo |-> 0, exp |-> -52]
       :> [neg |-> TRUE, hi |-> 65954170, lo |-> 42071707, exp |-> -53])
  @@ ([neg |-> TRUE, hi |-> 50329600, lo |-> 0, exp |-> -52]
       :> [neg |-> TRUE, hi |-> 65952909, lo |-> 130226432, exp |-> -53])
  @@ ([neg |-> TRUE, hi |-> 41947136, lo |-> 0, exp |-> -52]
       :> [neg |-> TRUE, hi |-> 60136455, lo |-> 84202946, exp |-> -53])
  @@ ([neg |-> TRUE, hi |-> 41945088, lo |-> 0, exp |-> -52]
       :> [neg |-> TRUE, hi |-> 60134857, lo |-> 44439598, exp |-> -53])
  @@ ([neg |-> TRUE, hi |-> 41943040, lo |-> 0, exp |-> -52]
       :> [neg |-> TRUE, hi |-> 60133258, lo |-> 126119838, exp |-> -53])
  @@ ([neg |-> TRUE, hi |-> 41940992, lo |-> 0, exp |-> -52]
       :> [neg |-> TRUE, hi |-> 60131660, lo |-> 60807314, exp |-> -53])
  @@ ([neg |-> TRUE, hi |-> 33558528, lo |-> 0, exp |-> -52]
       :> [neg |-> TRUE, hi |-> 52711274, lo |-> 38023790, exp |-> -53])
  @@ ([neg |-> TRUE, hi |-> 33556480, lo |-> 0, exp |-> -52]
       :> [neg |-> TRUE, hi |-> 52709226, lo |-> 63188419, exp |-> -53])
  @@ ([neg |-> TRUE, hi |-> 33554432, lo |-> 0, exp |-> -52]
       :> [neg |-> TRUE, hi |-> 52707178, lo |-> 71576856, exp |-> -53])
  @@ ([neg |-> TRUE, hi |-> 67104768, lo |-> 0, exp |-> -53]
       :> [neg |-> TRUE, hi |-> 52705130, lo |-> 63188078, exp |-> -53])
  @@ ([neg |-> TRUE, hi |-> 50339840, lo |-> 0, exp |-> -53]
       :> [neg |-> TRUE, hi |-> 43189870, lo |-> 129743588, exp |-> -53])
  @@ ([neg |-> TRUE, hi |-> 50335744, lo |-> 0, exp |-> -53]
       :> [neg |-> TRUE, hi |-> 43187249, lo |-> 101610691, exp |-> -53])
  @@ ([neg |-> TRUE, hi |-> 50331648, lo |-> 0, exp |-> -53]
       :> [neg |-> TRUE, hi |-> 43184628, lo |-> 52862689, exp |-> -53])
  @@ ([neg |-> TRUE, hi |-> 50327552, lo |-> 0, exp |-> -53]
       :> [neg |-> TRUE, hi |-> 43182006, lo |-> 117716572, exp |-> -53])
  @@ ([neg |-> TRUE, hi |-> 33562624, lo |-> 0, exp |-> -53]
       :> [neg |-> TRUE, hi |-> 62242835, lo |-> 31233826, exp |-> -54])
  @@ ([neg |-> TRUE, hi |-> 33558528, lo |-> 0, exp |-> -53]
       :> [neg |-> TRUE, hi |-> 62236282, lo |-> 15128921, exp |-> -54])
  @@ ([neg |-> TRUE, hi |-> 33554432, lo |-> 0, exp |-> -53]
       :> [neg |-> TRUE, hi |-> 62229728, lo |-> 90291023, exp |-> -54])
  @@ ([neg |-> TRUE, hi |-> 67100672, lo |-> 0, exp |-> -54]
       :> [neg |-> TRUE, hi |-> 62223174, lo |-> 122503453, exp |-> -54])
  @@ ([neg |-> TRUE, hi |-> 33570816, lo |-> 0, exp |-> -54]
       :> [neg |-> TRUE, hi |-> 65791798, lo |-> 98166177, exp |-> -55])
  @@ ([neg |-> TRUE, hi |-> 33562624, lo |-> 0, exp |-> -54]
       :> [neg |-> TRUE, hi |-> 65776379, lo |-> 21549625, exp |-> -55])
  @@ ([neg |-> TRUE, hi |-> 33554432, lo |-> 0, exp |-> -54]
       :> [neg |-> TRUE, hi |-> 65760959, lo |-> 19693789, exp |-> -55])
  @@ ([neg |-> TRUE, hi |-> 67092480, lo |-> 0, exp |-> -55]
       :> [neg |-> TRUE, hi |-> 65745538, lo |-> 92609768, exp |-> -55])
  @@ ([neg |-> TRUE, hi |-> 33554432, lo |-> 0, exp |-> -65]
       :> [neg |-> TRUE, hi |-> 67108863, lo |-> 89478486, exp |-> -66])
  @@ ([neg |-> TRUE, hi |-> 33554432, lo |-> 0, exp |-> -66]
       :> [neg |-> TRUE, hi |-> 67108863, lo |-> 123032917, exp |-> -67])
  @@ ([neg |-> FALSE, hi |-> 0, lo |-> 0, exp |-> 0]
       :> [neg |-> FALSE, hi |-> 0, lo |-> 0, exp |-> 0])
  @@ ([neg |-> FALSE, hi |-> 33554432, lo |-> 0, exp |-> -66]
       :> [neg |-> FALSE, hi |-> 67108863, lo |-> 123032917, exp |-> -67])
  @@ ([neg |-> FALSE, hi |-> 67076096, lo |-> 0, exp |-> -55]
       :> [neg |-> FALSE, hi |-> 65730117, lo |-> 106090933, exp |-> -55])
  @@ ([neg |-> FALSE, hi |-> 67092480, lo |-> 0, exp |-> -55]
       :> [neg |-> FALSE, hi |-> 65745538, lo |-> 92609768, exp |-> -55])
  @@ ([neg |-> FALSE, hi |-> 33554432, lo |-> 0, exp |-> -54]
       :> [neg |-> FALSE, hi |-> 65760959, lo |-> 19693789, exp |-> -55])
  @@ ([neg |-> FALSE, hi |-> 33562624, lo |-> 0, exp |-> -54]
       :> [neg |-> FALSE, hi |-> 65776379, lo |-> 21549625, exp |-> -55])
  @@ ([neg |-> FALSE, hi |-> 67092480, lo |-> 0, exp |-> -54]
       :> [neg |-> FALSE, hi |-> 62216620, lo |-> 111767259, exp |-> -54])
  @@ ([neg |-> FALSE, hi |-> 67100672, lo |-> 0, exp |-> -54]
       :> [neg |-> FALSE, hi |-> 62223174, lo |-> 122503453, exp |-> -54])
  @@ ([neg |-> FALSE, hi |-> 33554432, lo |-> 0, exp |-> -53]
       :> [neg |-> FALSE, hi |-> 62229728, lo |-> 90291023, exp |-> -54])
  @@ ([neg |-> FALSE, hi |-> 33558528, lo |-> 0, exp |-> -53]
       :> [neg |-> FALSE, hi |-> 62236282, lo |-> 15128921, exp |-> -54])
  @@ ([neg |-> FALSE, hi |-> 50323456, lo |-> 0, exp |-> -53]
       :> [neg |-> FALSE, hi |-> 43179385, lo |-> 27736146, exp |-> -53])
  @@ ([neg |-> FALSE, hi |-> 50327552, lo |-> 0, exp |-> -53]
       :> [neg |-> FALSE, hi |-> 43182006, lo |-> 117716572, exp |-> -53])
  @@ ([neg |-> FALSE, hi |-> 50331648, lo |-> 0, exp |-> -53]
       :> [neg |-> FALSE, hi |-> 43184628, lo |-> 52862689, exp |-> -53])
  @@ ([neg |-> FALSE, hi |-> 50335744, lo |-> 0, exp |-> -53]
       :> [neg |-> FALSE, hi |-> 43187249, lo |-> 101610691, exp |-> -53])
  @@ ([neg |-> FALSE, hi |-> 67100672, lo |-> 0, exp |-> -53]
       :> [neg |-> FALSE, hi |-> 52703082, lo |-> 38021059, exp |-> -53])
  @@ ([neg |-> FALSE, hi |-> 67104768, lo |-> 0, exp |-> -53]
       :> [neg |-> FALSE, hi |-> 52705130, lo |-> 63188078, exp |-> -53])
  @@ ([neg |-> FALSE, hi |-> 33554432, lo |-> 0, exp |-> -52]
       :> [neg |-> FALSE, hi |-> 52707178, lo |-> 71576856, exp |-> -53])
  @@ ([neg |-> FALSE, hi |-> 33556480, lo |-> 0, exp |-> -52]
       :> [neg |-> FALSE, hi |-> 52709226, lo |-> 63188419, exp |-> -53])
  @@ ([neg |-> FALSE, hi |-> 41938944, lo |-> 0, exp |-> -52]
       :> [neg |-> FALSE, hi |-> 60130061, lo |-> 116936584, exp |-> -53])
  @@ ([neg |-> FALSE, hi |-> 41940992, lo |-> 0, exp |-> -52]
       :> [neg |-> FALSE, hi |-> 60131660, lo |-> 60807314, exp |-> -53])
  @@ ([neg |-> FALSE, hi |-> 41943040, lo |-> 0, exp |-> -52]
       :> [neg |-> FALSE, hi |-> 60133258, lo |-> 126119838, exp |-> -53])
  @@ ([neg |-> FALSE, hi |-> 41945088, lo |-> 0, exp |-> -52]
       :> [neg |-> FALSE, hi |-> 60134857, lo |-> 44439598, exp |-> -53])
  @@ ([neg |-> FALSE, hi |-> 50327552, lo |-> 0, exp |-> -52]
       :> [neg |-> FALSE, hi |-> 65951649, lo |-> 74632490, exp |-> -53])
  @@ ([neg |-> FALSE, hi |-> 50329600, lo |-> 0, exp |-> -52]
       :> [neg |-> FALSE, hi |-> 65952909, lo |-> 130226432, exp |-> -53])
  @@ ([neg |-> FALSE, hi |-> 50331648, lo |-> 0, exp |-> -52]
       :> [neg |-> FALSE, hi |-> 65954170, lo |-> 42071707, exp |-> -53])
  @@ ([neg |-> FALSE, hi |-> 50333696, lo |-> 0, exp |-> -52]
       :> [neg |-> FALSE, hi |-> 65955430, lo |-> 78604457, exp |-> -53])
  @@ ([neg |-> FALSE, hi |-> 58716160, lo |-> 0, exp |-> -52]
       :> [neg |-> FALSE, hi |-> 35286517, lo |-> 32959293, exp |-> -52])
  @@ ([neg |-> FALSE, hi |-> 58718208, lo |-> 0, exp |-> -52]
       :> [neg |-> FALSE, hi |-> 35287021, lo |-> 54815631, exp |-> -52])
  @@ ([neg |-> FALSE, hi |-> 58720256, lo |-> 0, exp |-> -52]
       :> [neg |-> FALSE, hi |-> 35287525, lo |-> 73113759, exp |-> -52])
  @@ ([neg |-> FALSE, hi |-> 58722304, lo |-> 0, exp |-> -52]
       :> [neg |-> FALSE, hi |-> 35288029, lo |-> 87853925, exp |-> -52])
  @@ ([neg |-> FALSE, hi |-> 67104768, lo |-> 0, exp |-> -52]
       :> [neg |-> FALSE, hi |-> 37148927, lo |-> 16791605, exp |-> -52])
  @@ ([neg |-> FALSE, hi |-> 67106816, lo |-> 0, exp |-> -52]
       :> [neg |-> FALSE, hi |-> 37149336, lo |-> 101348984, exp |-> -52])

MathAtan(x) == AtanTable[x]

CurveSize == 65536

\* the table entries the model evaluates: the two at each end and four around
\* every sixteenth of the table
SampledEntries == {i \in 0..(CurveSize - 1) : (i + 2) % (CurveSize \div 16) < 4}

\* lines 237, 249: (i * 2) / size - 1
Normalize(i, size) == FSub(FDiv(FromInt(i * 2), FromInt(size)), FromInt(1))

\* the normalized index without Math.abs
AbsCurveEntry_Signed(i) == Fround(Normalize(i, CurveSize))

\* line 237: entry i of the table getAbsCurve fills
AbsCurveEntry(i) == Fround(MathAbs(Normalize(i, CurveSize)))

\* the arctangent alone, not scaled by 2 / Math.PI
SoftClipCurveEntry_Unscaled(i) ==
  Fround(MathAtan(FMul(Normalize(i, CurveSize), FromInt(2))))

\* line 251: entry i of the table getSoftClipCurve fills
SoftClipCurveEntry(i) ==
  Fround(FMulFull(TwoOverPi, MathAtan(FMul(Normalize(i, CurveSize), FromInt(2)))))

getAbsCurve == [i \in SampledEntries |-> AbsCurveEntry(i)] @@ <<>>

getSoftClipCurve == [i \in SampledEntries |-> SoftClipCurveEntry(i)] @@ <<>>

\* ------------------------------------------------------------------------
\* Vocoder engine (vocoderEngine.js)
\* ------------------------------------------------------------------------
VARIABLES
  eng,            \* the runVocoder invocation in progress (the queue admits one at a time)
  received,       \* number of /vocode interactions received so far
  inter,          \* per interaction: where its interactionCreate handler stands
  processQueue,   \* the task queue, as the ids of the interactions whose tasks it holds
  isProcessing,   \* the processing flag
  immediates,     \* runQueue calls scheduled by setImmediate and not yet run
  task,           \* per interaction: the state of its queued task
  dl,             \* per interaction and attachment: the downloadAndConvert call
  startOrder,     \* the interactions in the order runQueue called their tasks
  other,          \* a second runVocoder invocation, made while the first is in progress
  helper,         \* a call of one of the engine's helper functions, with its result
  command,        \* the /vocode command as registered with Discord
  tempDir,        \* the files the startup and shutdown scans find in TEMP_DIR
  proc,           \* the bot's process
  clean,          \* the "ready" handler with its cleanTempDir call
  shutdown        \* the shutdownCleanup call

botvars == <<received, inter, processQueue, isProcessing, immediates, task, dl, startOrder>>
procvars == <<command, tempDir, proc, clean, shutdown>>

vars == <<eng, received, inter, processQueue, isProcessing, immediates, task, dl, startOrder,
          other, helper, procvars>>

WORK_RATE == 48000
minQ == FDiv(FromInt(1), FromInt(2))
maxQ == FromInt(15)
bands == 16
DefaultWidth == 50
WidthDivisor == 100
MinHz == 80
MaxHz == 7000

\* Input sample rates of decoded audio that the model draws from
Rates == {8000, 48000, 96000}

\* What one channel of a decoded input holds: all zeros, or one of two waveforms
\* that are named, not sampled
Contents == {"silence", "tone", "noise"}
ChannelCounts == {1, 2}
ChannelData == UNION {[1..n -> Contents] : n \in ChannelCounts}

\* An encoded input is identified with what decodeAudio makes of it
Undecodable == [decodable |-> FALSE, length |-> 0, sampleRate |-> 0, channelData |-> <<>>]

\* inputs of one or two channels, at the working rate
ChannelBuffers ==
  {[decodable |-> TRUE, length |-> l, sampleRate |-> WORK_RATE, channelData |-> cd] :
     l \in 1..MaxConvFrames, cd \in ChannelData}

\* mono inputs of every length and rate considered, and the inputs above
Buffers == {Undecodable} \cup
           {[decodable |-> TRUE, length |-> l, sampleRate |-> r, channelData |-> <<"tone">>] :
              l \in 0..MaxFrames, r \in Rates}
           \cup ChannelBuffers
ConvertedBuffers ==
  {b \in Buffers : ~b.decodable \/ (b.sampleRate = WORK_RATE /\ b.length <= MaxConvFrames
                                      /\ b.channelData = <<"tone">>)}

Widths == (0 - WidthSlack)..(100 + WidthSlack)

\* Math.log at the two arguments the engine uses (nearest doubles)
MathLog(n) ==
  IF n = MinHz THEN [neg |-> FALSE, hi |-> 36759103, lo |-> 91783236, exp |-> -50]
  ELSE [neg |-> FALSE, hi |-> 37134964, lo |-> 42879771, exp |-> -49]

\* Math.exp at the arguments logFrequencies(80, 7000, 16) passes it: the double
\* nearest to the exponential of each
ExpTable ==
  ([neg |-> FALSE, hi |-> 36759103, lo |-> 91783236, exp |-> -50]
     :> [neg |-> FALSE, hi |-> 41943039, lo |-> 134217726, exp |-> -46])
  @@ ([neg |-> FALSE, hi |-> 39259825, lo |-> 46642414, exp |-> -50]
     :> [neg |-> FALSE, hi |-> 56510234, lo |-> 43583587, exp |-> -46])
  @@ ([neg |-> FALSE, hi |-> 41760547, lo |-> 1501592, exp |-> -50]
     :> [neg |-> FALSE, hi |-> 38068373, lo |-> 779626, exp |-> -45])
  @@ ([neg |-> FALSE, hi |-> 44261268, lo |-> 90578497, exp |-> -50]
     :> [neg |-> FALSE, hi |-> 51289860, lo |-> 93903384, exp |-> -45])
  @@ ([neg |-> FALSE, hi |-> 46761990, lo |-> 45437675, exp |-> -50]
     :> [neg |-> FALSE, hi |-> 34551644, lo |-> 118245188, exp |-> -44])
  @@ ([neg |-> FALSE, hi |-> 49262712, lo |-> 296853, exp |-> -50]
     :> [neg |-> FALSE, hi |-> 46551741, lo |-> 43830472, exp |-> -44])
  @@ ([neg |-> FALSE, hi |-> 51763433, lo |-> 89373758, exp |-> -50]
     :> [neg |-> FALSE, hi |-> 62719578, lo |-> 133602613, exp |-> -44])
  @@ ([neg |-> FALSE, hi |-> 54264155, lo |-> 44232936, exp |-> -50]
     :> [neg |-> FALSE, hi |-> 42251325, lo |-> 122756792, exp |-> -43])
  @@ ([neg |-> FALSE, hi |-> 56764876, lo |-> 133309842, exp |-> -50]
     :> [neg |-> FALSE, hi |-> 56925590, lo |-> 94627901, exp |-> -43])
  @@ ([neg |-> FALSE, hi |-> 59265598, lo |-> 88169020, exp |-> -50]
     :> [neg |-> FALSE, hi |-> 38348179, lo |-> 93386177, exp |-> -42])
  @@ ([neg |-> FALSE, hi |-> 61766320, lo |-> 43028198, exp |-> -50]
     :> [neg |-> FALSE, hi |-> 51666846, lo |-> 102666702, exp |-> -42])
  @@ ([neg |-> FALSE, hi |-> 64267041, lo |-> 132105103, exp |-> -50]
     :> [neg |-> FALSE, hi |-> 34805603, lo |-> 31678905, exp |-> -41])
  @@ ([neg |-> FALSE, hi |-> 66767763, lo |-> 86964281, exp |-> -50]
     :> [neg |-> FALSE, hi |-> 46893901, lo |-> 93702853, exp |-> -41])
  @@ ([neg |-> FALSE, hi |-> 34634242, lo |-> 88020594, exp |-> -49]
     :> [neg |-> FALSE, hi |-> 63180574, lo |-> 98743997, exp |-> -41])
  @@ ([neg |-> FALSE, hi |-> 35884603, lo |-> 65450182, exp |-> -49]
     :> [neg |-> FALSE, hi |-> 42561877, lo |-> 102580679, exp |-> -40])
  @@ ([neg |-> FALSE, hi |-> 37134964, lo |-> 42879771, exp |-> -49]
     :> [neg |-> FALSE, hi |-> 57343999, lo |-> 134217727, exp |-> -40])

MathExp(x) == ExpTable[x]

\* frequencies spaced by equal differences, not by equal ratios
logFrequencies_Linear(min, max, count) ==
  LET step == FDiv(FromInt(max - min), FromInt(count - 1))
  IN [k \in 1..count |-> FAdd(FromInt(min), FMul(step, FromInt(k - 1)))]

logFrequencies(min, max, count) ==
  LET logMin == MathLog(min)
      logMax == MathLog(max)
      step   == FDiv(FSub(logMax, logMin), FromInt(count - 1))
  IN [k \in 1..count |-> MathExp(FAdd(logMin, FMul(step, FromInt(k - 1))))]

frequencies == logFrequencies(MinHz, MaxHz, bands) @@ <<>>

\* the width mapping without the inversion: high width, high Q
qFactor_NotInverted(widthPercent) ==
  FAdd(minQ, FMul(FDiv(FromInt(widthPercent), FromInt(WidthDivisor)), FSub(maxQ, minQ)))

\* line 131: maxQ - ((widthPercent / 100) * (maxQ - minQ))
qFactor(widthPercent) ==
  FSub(maxQ, FMul(FDiv(FromInt(widthPercent), FromInt(WidthDivisor)), FSub(maxQ, minQ)))

\* lines 108-115
Duration(decoded) == FDiv(FromInt(decoded.length), FromInt(decoded.sampleRate))

\* the values the arithmetic takes on the inputs considered, tabulated once
\* (f @@ <<>> is f, held as an explicit table)
DurationOf == [b \in Buffers \ {Undecodable} |-> Duration(b)] @@ <<>>
QFactorOf == [w \in Widths |-> qFactor(w)] @@ <<>>
WorkRate == FromInt(WORK_RATE)

\* line 115: Math.floor(duration * WORK_RATE), for every duration of lines 108-109
FramesOf ==
  [d \in {DurationOf[b] : b \in DOMAIN DurationOf} |-> MathFloor(FMul(d, WorkRate))] @@ <<>>

\* lines 108-115: the durations, Math.min, the product and Math.floor
lengthSamples(modDecoded, carDecoded) ==
  FramesOf[MathMin(DurationOf[modDecoded], DurationOf[carDecoded])]

BiquadFilterNode(type, frequency, Q) == [type |-> type, frequency |-> frequency, Q |-> Q]

\* a band loop that leaves the carrier filter at a fixed Q
BandUnit_CarrierFixedQ(f, q) ==
  [modFilter |-> BiquadFilterNode("bandpass", f, q),
   carFilter |-> BiquadFilterNode("bandpass", f, minQ),
   bandGain  |-> [gain |-> 0]]

\* one iteration of the band loop: what it pushes onto bandNodes
BandUnit(f, q) ==
  [modFilter |-> BiquadFilterNode("bandpass", f, q),
   carFilter |-> BiquadFilterNode("bandpass", f, q),
   bandGain  |-> [gain |-> 0]]

BuildBands(freqs, q) == [k \in 1..Len(freqs) |-> BandUnit(freqs[k], q)]

\* A node of the graph is named by the variable that holds it and, inside the
\* band loop, by the iteration that created it (band 0: outside the loop)
NodeId(name, band) == [name |-> name, band |-> band]

\* a.connect(b), or a.connect(b.param) when param is not ""
Connection(from, to, param) == [from |-> from, to |-> to, param |-> param]

\* lines 218-230: the source node and the buffer it is given, every channel copied
createBufferSource(decodedData) ==
  [buffer |-> [numberOfChannels |-> Len(decodedData.channelData),
               length |-> decodedData.length,
               sampleRate |-> decodedData.sampleRate,
               channelData |-> [i \in 1..Len(decodedData.channelData) |->
                                  decodedData.channelData[i]]]]

EnvelopeHz == 40

\* lines 143-163: the nodes of the output chain
OutputNodes ==
  (NodeId("summingGain", 0) :> [gain |-> 1])
  @@ (NodeId("compressor", 0) :>
        [threshold |-> -24, knee |-> 10, ratio |-> 12, attackMs |-> 3, releaseMs |-> 250])
  @@ (NodeId("makeupGain", 0) :> [gain |-> 4])
  @@ (NodeId("limiter", 0) :> [curve |-> "getSoftClipCurve"])

\* an output chain in which the makeup gain also reaches the destination directly
OutputWiring_LimiterBypassed ==
  {Connection(NodeId("summingGain", 0), NodeId("compressor", 0), ""),
   Connection(NodeId("compressor", 0), NodeId("makeupGain", 0), ""),
   Connection(NodeId("makeupGain", 0), NodeId("limiter", 0), ""),
   Connection(NodeId("makeupGain", 0), NodeId("destination", 0), ""),
   Connection(NodeId("limiter", 0), NodeId("destination", 0), "")}

\* lines 166-169
OutputWiring ==
  {Connection(NodeId("summingGain", 0), NodeId("compressor", 0), ""),
   Connection(NodeId("compressor", 0), NodeId("makeupGain", 0), ""),
   Connection(NodeId("makeupGain", 0), NodeId("limiter", 0), ""),
   Connection(NodeId("limiter", 0), NodeId("destination", 0), "")}

\* lines 174-182: the nodes iteration k of the band loop creates
BandNodes(k, f, q) ==
  (NodeId("modFilter", k) :> BandUnit(f, q).modFilter)
  @@ (NodeId("rectifier", k) :> [curve |-> "getAbsCurve"])
  @@ (NodeId("envelope", k) :> [type |-> "lowpass", frequency |-> EnvelopeHz])
  @@ (NodeId("carFilter", k) :> BandUnit(f, q).carFilter)
  @@ (NodeId("bandGain", k) :> BandUnit(f, q).bandGain)

\* a band loop in which every band's modulator filter feeds the first band's rectifier
BandWiring_SharedRectifier(k) ==
  {Connection(NodeId("modSource", 0), NodeId("modFilter", k), ""),
   Connection(NodeId("modFilter", k), NodeId("rectifier", 1), ""),
   Connection(NodeId("rectifier", k), NodeId("envelope", k), ""),
   Connection(NodeId("envelope", k), NodeId("bandGain", k), "gain"),
   Connection(NodeId("carSource", 0), NodeId("carFilter", k), ""),
   Connection(NodeId("carFilter", k), NodeId("bandGain", k), ""),
   Connection(NodeId("bandGain", k), NodeId("summingGain", 0), "")}

\* lines 185-197: the connections iteration k of the band loop makes
BandWiring(k) ==
  {Connection(NodeId("modSource", 0), NodeId("modFilter", k), ""),
   Connection(NodeId("modFilter", k), NodeId("rectifier", k), ""),
   Connection(NodeId("rectifier", k), NodeId("envelope", k), ""),
   Connection(NodeId("envelope", k), NodeId("bandGain", k), "gain"),
   Connection(NodeId("carSource", 0), NodeId("carFilter", k), ""),
   Connection(NodeId("carFilter", k), NodeId("bandGain", k), ""),
   Connection(NodeId("bandGain", k), NodeId("summingGain", 0), "")}

RECURSIVE AllBandNodes(_, _, _)
AllBandNodes(freqs, q, k) ==
  IF k = 0 THEN <<>> ELSE BandNodes(k, freqs[k], q) @@ AllBandNodes(freqs, q, k - 1)

\* lines 118-201: every node created in the context and every connection made
BuildGraph(modDecoded, carDecoded, freqs, q) ==
  [nodes |-> (NodeId("modSource", 0) :> createBufferSource(modDecoded))
             @@ (NodeId("carSource", 0) :> createBufferSource(carDecoded))
             @@ OutputNodes @@ AllBandNodes(freqs, q, Len(freqs)),
   connections |-> OutputWiring \cup UNION {BandWiring(k) : k \in 1..Len(freqs)}]

NoGraph == [nodes |-> <<>>, connections |-> {}]

\* ------------------------------------------------------------------------
\* Rendering. A signal is followed through the graph by what is known of it:
\*   kind     "zero" (every sample 0), "constant" (every sample = value), or
\*            "signal" (neither is known)
\*   bounded  every sample has magnitude at most peak
\*   of       the source channels it is made from
\* ------------------------------------------------------------------------
Half == FDiv(FromInt(1), FromInt(2))

\* WaveShaperNode: the input x in [-1,1] reads the table of N entries at position
\* v = (N-1)/2 * (x+1), interpolating linearly between entries floor(v) and
\* floor(v)+1. The input is given in half steps: x = -1 + h/(N-1), so v = h/2.
WaveShaper(curve, h) ==
  IF h % 2 = 0 THEN curve[h \div 2]
  ELSE FAdd(FMul(curve[h \div 2], Half), FMul(curve[(h \div 2) + 1], Half))

\* the input 0, in half steps
ZeroInput == CurveSize - 1

FMax(x, y) == IF FLess(x, y) THEN y ELSE x

RECURSIVE PeakOver(_, _)
PeakOver(curve, entries) ==
  IF entries = {} THEN FZero
  ELSE LET i == CHOOSE e \in entries : TRUE
       IN FMax(MathAbs(curve[i]), PeakOver(curve, entries \ {i}))

Curves == [getAbsCurve |-> getAbsCurve, getSoftClipCurve |-> getSoftClipCurve]

\* the largest magnitude among the entries of each table
CurvePeak == [name \in DOMAIN Curves |-> PeakOver(Curves[name], DOMAIN Curves[name])] @@ <<>>

\* what each table gives for the input 0
CurveAtZero == [name \in DOMAIN Curves |-> WaveShaper(Curves[name], ZeroInput)] @@ <<>>

\* one channel as a mix of the named waveforms, in halves
Wave(content) == [w \in Contents \ {"silence"} |-> IF w = content THEN 2 ELSE 0]

IsSilent(heard) == \A i \in 1..Len(heard) : \A w \in DOMAIN heard[i] : heard[i][w] = 0

\* down-mix to one channel (Web Audio, "speakers"): stereo gives 0.5 * (L + R);
\* a layout without a mixing rule keeps its first channel
MonoMix(heard) ==
  IF Len(heard) = 2
  THEN <<[w \in DOMAIN heard[1] |-> (heard[1][w] + heard[2][w]) \div 2]>>
  ELSE <<heard[1]>>

Zero == [kind |-> "zero", value |-> FZero, bounded |-> TRUE, peak |-> FZero, of |-> {}]

Constant(v) ==
  IF IsZero(v) THEN Zero
  ELSE [kind |-> "constant", value |-> v, bounded |-> TRUE, peak |-> MathAbs(v), of |-> {}]

Signal(of) == [kind |-> "signal", value |-> FZero, bounded |-> FALSE, peak |-> FZero, of |-> of]

DownMix(s) == [s EXCEPT !.of = {[src |-> o.src, heard |-> MonoMix(o.heard)] : o \in s.of}]

\* the sum of the signals connected to one input
Mixed(sigs) ==
  LET nz == {i \in DOMAIN sigs : sigs[i].kind # "zero"}
  IN IF nz = {} THEN Zero
     ELSE IF Cardinality(nz) = 1 THEN sigs[CHOOSE i \in nz : TRUE]
     ELSE Signal(UNION {sigs[i].of : i \in nz})

\* the output of a node with parameters p, for the input in and, for a gain
\* node, the signal ctl connected to its gain parameter
NodeOutput(name, p, in, ctl) ==
  IF "buffer" \in DOMAIN p
  THEN LET heard == [i \in 1..p.buffer.numberOfChannels |-> Wave(p.buffer.channelData[i])]
       IN IF IsSilent(heard) THEN Zero ELSE Signal({[src |-> name, heard |-> heard]})
  ELSE IF "curve" \in DOMAIN p
  THEN IF in.kind = "zero" THEN Constant(CurveAtZero[p.curve])
       ELSE [kind |-> "signal", value |-> FZero, bounded |-> TRUE,
             peak |-> CurvePeak[p.curve], of |-> in.of]
  ELSE IF "gain" \in DOMAIN p
  THEN IF in.kind = "zero" \/ (p.gain = 0 /\ ctl.kind = "zero") THEN Zero
       ELSE IF p.gain = 1 /\ ctl.kind = "zero" THEN in
       ELSE Signal(in.of \cup ctl.of)
  ELSE IF in.kind = "zero" THEN Zero ELSE Signal(in.of)

\* the signal at the output of node n of graph g; ctx.destination mixes its
\* input down to the one channel of the context, a gain parameter to one channel
RECURSIVE SignalAt(_, _)
SignalAt(g, n) ==
  LET ins  == [m \in {c.from : c \in {d \in g.connections : d.to = n /\ d.param = ""}}
                 |-> SignalAt(g, m)]
      ctls == [m \in {c.from : c \in {d \in g.connections : d.to = n /\ d.param = "gain"}}
                 |-> SignalAt(g, m)]
  IN IF n.name = "destination" THEN DownMix(Mixed(ins))
     ELSE NodeOutput(n.name, g.nodes[n], Mixed(ins), DownMix(Mixed(ctls)))

\* line 207: the buffer ctx.startRendering() resolves with
Render(e) ==
  [sampleRate |-> WORK_RATE, length |-> e.lengthSamples,
   channelData |-> <<SignalAt(e.graph, NodeId("destination", 0))>>]

NoBuffer == [sampleRate |-> 0, length |-> 0, channelData |-> <<>>]

\* the bytes carry a number taken from the identity of the context
Encode_StampsContext(e) ==
  [format |-> "wav", sampleRate |-> WORK_RATE * e.ctx, length |-> e.renderedBuffer.length,
   channelData |-> <<e.renderedBuffer.channelData[1]>>]

\* lines 209-214: the WAV bytes made of channel 0 of the rendered buffer
Encode(e) ==
  [format |-> "wav", sampleRate |-> WORK_RATE, length |-> e.renderedBuffer.length,
   channelData |-> <<e.renderedBuffer.channelData[1]>>]

NoBytes == [format |-> "none", sampleRate |-> 0, length |-> 0, channelData |-> <<>>]

EngIdle ==
  [pc |-> "idle", caller |-> 0,
   modArrayBuf |-> Undecodable, carArrayBuf |-> Undecodable, widthPercent |-> 0,
   decodeCalls |-> 0, modDecoded |-> Undecodable, carDecoded |-> Undecodable,
   lengthSamples |-> -1, ctxCreated |-> FALSE, qFactor |-> FZero, bandNodes |-> <<>>,
   ctx |-> 0, graph |-> NoGraph, renderedBuffer |-> NoBuffer, wavData |-> NoBytes,
   renderedLength |-> -1, returnedBytes |-> FALSE, error |-> "none"]

Throw(e, name) == [e EXCEPT !.pc = "thrown", !.error = name]

\* runVocoder up to its first await: the default parameter, then decodeAudio(modArrayBuf)
runVocoder(modArrayBuf, carArrayBuf, width, caller) ==
  [EngIdle EXCEPT !.pc = "decodeMod", !.caller = caller,
                  !.modArrayBuf = modArrayBuf, !.carArrayBuf = carArrayBuf,
                  !.widthPercent = IF width.given THEN width.value ELSE DefaultWidth,
                  !.decodeCalls = 1]

\* decodeAudio(modArrayBuf) settles; on success decodeAudio(carArrayBuf) is called
AfterDecodeMod(e) ==
  IF e.modArrayBuf.decodable
  THEN [e EXCEPT !.pc = "decodeCar", !.modDecoded = e.modArrayBuf, !.decodeCalls = 2]
  ELSE Throw(e, "DecodeFailure")

DecodeModSettle ==
  /\ UNCHANGED <<botvars, other, helper, procvars>>
  /\ eng.pc = "decodeMod"
  /\ eng' = AfterDecodeMod(eng)

\* new OfflineAudioContext(1, length, rate) rejects a length of 0 (Web Audio API)
ContextThrows(length) == length = 0

\* Objects are told apart by an identity; the contexts in use are those that
\* the invocations in progress hold
ContextIds == {1, 2}

LiveContexts == {eng.ctx, other.ctx} \ {0}

\* one context kept by the module and handed to every call
NewContext_Pooled(live) == 1

\* line 116: new yields an object that is none of the objects in use
NewContext(live) == CHOOSE c \in ContextIds \ live : \A d \in ContextIds \ live : c <= d

\* lines 108-207 after the carrier is decoded: duration, context, sources, Q,
\* output chain, band loop, start, startRendering()
AfterDecode(e, carDecoded, built) ==
  LET n == lengthSamples(e.modDecoded, carDecoded)
      d == [e EXCEPT !.carDecoded = carDecoded, !.lengthSamples = n]
  IN IF ContextThrows(n) THEN Throw(d, "NotSupportedError")
     ELSE IF ~built
          THEN Throw([d EXCEPT !.ctxCreated = TRUE, !.ctx = NewContext(LiveContexts)],
                     "GraphFailure")
     ELSE [d EXCEPT !.pc = "rendering", !.ctxCreated = TRUE,
                    !.ctx = NewContext(LiveContexts),
                    !.qFactor = QFactorOf[e.widthPercent],
                    !.bandNodes = BuildBands(frequencies, QFactorOf[e.widthPercent]),
                    !.graph = BuildGraph(e.modDecoded, carDecoded, frequencies,
                                         QFactorOf[e.widthPercent])]

AfterDecodeCar(e, built) ==
  IF e.carArrayBuf.decodable THEN AfterDecode(e, e.carArrayBuf, built)
  ELSE Throw(e, "DecodeFailure")

DecodeCarSettle ==
  /\ UNCHANGED <<botvars, other, helper, procvars>>
  /\ eng.pc = "decodeCar"
  /\ \E built \in BOOLEAN : eng' = AfterDecodeCar(eng, built)

AfterRender(e, ok) ==
  IF ok THEN [e EXCEPT !.pc = "encoding", !.renderedLength = e.lengthSamples,
                       !.renderedBuffer = Render(e)]
  ELSE Throw(e, "RenderFailure")

\* ctx.startRendering() settles; on success WavEncoder.encode is called
RenderSettle ==
  /\ UNCHANGED <<botvars, other, helper, procvars>>
  /\ eng.pc = "rendering"
  /\ \E ok \in BOOLEAN : eng' = AfterRender(eng, ok)

AfterEncode(e, ok) ==
  IF ok THEN [e EXCEPT !.pc = "returned", !.returnedBytes = TRUE, !.wavData = Encode(e)]
  ELSE Throw(e, "EncodeFailure")

\* WavEncoder.encode settles; on success runVocoder returns the bytes
EncodeSettle ==
  /\ UNCHANGED <<botvars, other, helper, procvars>>
  /\ eng.pc = "encoding"
  /\ \E ok \in BOOLEAN : eng' = AfterEncode(eng, ok)

EngineCalls ==
  {[mod |-> m, car |-> c, width |-> [given |-> FALSE, value |-> 0]] : m \in Buffers, c \in Buffers}
  \cup
  {[mod |-> m, car |-> c, width |-> [given |-> TRUE, value |-> w]] :
     m \in ConvertedBuffers, c \in ConvertedBuffers, w \in Widths}

\* ------------------------------------------------------------------------
\* The bot (index.js): queue, interactionCreate handler, downloadAndConvert
\* ------------------------------------------------------------------------
Jobs == 1..MaxJobs
Attachments == {"modulator", "carrier"}

\* attachment.contentType: absent, or a MIME type by its prefix
ContentTypes == {"null", "audio/", "video/", "other"}

\* a check that lets an attachment without content type through
validMime_AllowsMissing(type) == type = "null" \/ type = "audio/" \/ type = "video/"

\* line 165
validMime(type) == type # "null" /\ (type = "audio/" \/ type = "video/")

\* interaction.options.getInteger("width"): null, or an integer the command's
\* setMinValue(0) / setMaxValue(100) admit
MinWidth == 0
MaxWidth == 100

\* one option of a slash command; min and max are the setMinValue / setMaxValue limits
Option(name, type, required, min, max) ==
  [name |-> name, type |-> type, required |-> required, min |-> min, max |-> max]

\* the command the bot's "ready" handler registers (index.js lines 122-140)
IndexCommand ==
  {Option("modulator", "attachment", TRUE, 0, 0),
   Option("carrier", "attachment", TRUE, 0, 0),
   Option("width", "integer", FALSE, MinWidth, MaxWidth)}

\* the command deploy-commands.js registers under the same name (lines 29-35)
DeployCommand ==
  {Option("modulator", "attachment", TRUE, 0, 0),
   Option("carrier", "attachment", TRUE, 0, 0),
   Option("bands", "integer", FALSE, 8, 64),
   Option("strength", "number", FALSE, 0, 1)}

\* what getInteger("width") can return for a command cmd: Discord admits a
\* value only for an option the registered command has, within its limits
WidthOptions(cmd) ==
  {[given |-> FALSE, value |-> 0]} \cup
  {[given |-> TRUE, value |-> o.max] : o \in {x \in cmd : x.name = "width" /\ x.type = "integer"}}

\* failedStep, vocoderReturned and replyFile (the reply carries a file) record what
\* happened to the running task; of a task that has ended only whether it failed is kept
TaskInit ==
  [pc |-> "waiting", widthVal |-> 0, modBuffer |-> Undecodable, carBuffer |-> Undecodable,
   outPath |-> FALSE, failedStep |-> "none", vocoderReturned |-> FALSE,
   replyFile |-> FALSE, widthOption |-> [given |-> FALSE, value |-> 0]]

TaskDone(t) ==
  [TaskInit EXCEPT !.pc = "done", !.failedStep = IF t.failedStep = "none" THEN "none" ELSE "failed"]

\* "idle": no call in progress and no result awaited
DlIdle == [pc |-> "idle", wav |-> Undecodable, failed |-> "none"]

Executing(j) == task[j].pc \notin {"waiting", "done"}

InProgress(d) == d.pc \in {"fetching", "converting", "finishing", "failing"}

\* a catch block whose error reply attaches the output file when one was named
Catch_AttachesFile(t, step) ==
  [t EXCEPT !.pc = "errReply", !.failedStep = step, !.replyFile = t.outPath]

\* the catch block of the task: console.error, then editReply with the error message
Catch(t, step) == [t EXCEPT !.pc = "errReply", !.failedStep = step]

\* the task from its call to its first await (lines 160-171)
TaskStart(t, modType, carType, width) ==
  LET t1 == [t EXCEPT !.widthVal = IF width.given THEN width.value ELSE DefaultWidth,
                      !.widthOption = width]
  IN IF ~validMime(modType) \/ ~validMime(carType)
     THEN Catch(t1, "mime")
     ELSE [t1 EXCEPT !.pc = "status1"]

\* runQueue without the processing flag in its early exit
RunQueueEarlyExit_NoFlag(processing, queue) == Len(queue) = 0

\* line 97
RunQueueEarlyExit(processing, queue) == processing \/ Len(queue) = 0

\* a shift that leaves the task in the queue
Shift_Keeps(q) == q

\* processQueue.shift() (line 100): the queue without its first task
Shift(q) == Tail(q)

\* runQueue() called with the queue standing at q: lines 97-102, and the task
\* it calls up to the task's first await
RunQueue(q) ==
  IF RunQueueEarlyExit(isProcessing, q)
  THEN /\ processQueue' = q
       /\ UNCHANGED <<isProcessing, task, startOrder>>
  ELSE /\ isProcessing' = TRUE
       /\ processQueue' = Shift(q)
       /\ startOrder' = Append(startOrder, Head(q))
       /\ \E modType \in ContentTypes, carType \in ContentTypes, width \in WidthOptions(command) :
            task' = [task EXCEPT ![Head(q)] = TaskStart(task[Head(q)], modType, carType, width)]

\* runQueue that does not schedule the next task when it resumes
ScheduleNext_Never(queue, scheduled) == scheduled

\* line 107
ScheduleNext(queue, scheduled) == IF Len(queue) > 0 THEN scheduled + 1 ELSE scheduled

\* a runQueue that leaves the processing flag up when it resumes
RunQueueFinally_KeepsFlag ==
  /\ isProcessing' = isProcessing
  /\ immediates' = ScheduleNext(processQueue, immediates)

\* the task's promise settles and runQueue resumes: lines 103-108
RunQueueFinally ==
  /\ isProcessing' = FALSE
  /\ immediates' = ScheduleNext(processQueue, immediates)

\* the finally block of the task (lines 202-206): unlink the output file if it was named
Finally(t) == IF t.outPath THEN [t EXCEPT !.pc = "cleanup"] ELSE TaskDone(t)

\* an action that moves task j; when the task ends, runQueue resumes
TaskStep(j, t) ==
  /\ task' = [task EXCEPT ![j] = t]
  /\ IF task[j].pc # "done" /\ t.pc = "done"
     THEN RunQueueFinally
     ELSE UNCHANGED <<isProcessing, immediates>>

\* interactionCreate for a /vocode command: lines 153-156, up to await deferReply()
Receive ==
  /\ received < MaxJobs
  /\ received' = received + 1
  /\ inter' = [inter EXCEPT ![received + 1] = "deferring"]
  /\ UNCHANGED <<eng, processQueue, isProcessing, immediates, task, dl, startOrder, other, helper, procvars>>

\* deferReply() resolves: the task is pushed and runQueue() is called (lines 159-209)
DeferResolve(j) ==
  /\ inter[j] = "deferring"
  /\ inter' = [inter EXCEPT ![j] = "queued"]
  /\ RunQueue(Append(processQueue, j))
  /\ UNCHANGED <<eng, received, immediates, dl, other, helper, procvars>>

\* deferReply() rejects: the handler ends there, nothing is pushed
DeferReject(j) ==
  /\ inter[j] = "deferring"
  /\ inter' = [inter EXCEPT ![j] = "dropped"]
  /\ UNCHANGED <<eng, received, processQueue, isProcessing, immediates, task, dl, startOrder, other, helper, procvars>>

\* a runQueue call scheduled by setImmediate runs
ImmediateRunQueue ==
  /\ immediates > 0
  /\ immediates' = immediates - 1
  /\ RunQueue(processQueue)
  /\ UNCHANGED <<eng, received, inter, dl, other, helper, procvars>>

\* downloadAndConvert up to its first await (lines 64-68)
downloadAndConvert == [DlIdle EXCEPT !.pc = "fetching"]

\* editReply("Downloading...") settles; on success both downloadAndConvert calls
\* are made and the task awaits Promise.all (lines 171-177)
Status1Settle(j) ==
  /\ task[j].pc = "status1"
  /\ \E ok \in BOOLEAN :
       IF ok
       THEN /\ dl' = [dl EXCEPT ![j] = [a \in Attachments |-> downloadAndConvert]]
            /\ TaskStep(j, [task[j] EXCEPT !.pc = "downloading"])
       ELSE /\ TaskStep(j, Catch(task[j], "status"))
            /\ UNCHANGED dl
  /\ UNCHANGED <<eng, received, inter, processQueue, startOrder, other, helper, procvars>>

\* a Promise.all that is fulfilled as soon as one of the calls is
PromiseAll_Any(t, d) ==
  IF t.pc # "downloading" THEN t
  ELSE IF \E a \in Attachments : d[a].pc = "resolved"
       THEN [t EXCEPT !.pc = "status2", !.modBuffer = d["modulator"].wav,
                      !.carBuffer = d["carrier"].wav]
  ELSE IF \E a \in Attachments : d[a].pc = "rejected"
       THEN Catch(t, d[CHOOSE a \in Attachments : d[a].pc = "rejected"].failed)
  ELSE t

\* what Promise.all makes of the two calls for the task awaiting it (lines 174-179)
PromiseAll(t, d) ==
  IF t.pc # "downloading" THEN t
  ELSE IF \E a \in Attachments : d[a].pc = "rejected"
       THEN Catch(t, d[CHOOSE a \in Attachments : d[a].pc = "rejected"].failed)
  ELSE IF \A a \in Attachments : d[a].pc = "resolved"
       THEN [t EXCEPT !.pc = "status2", !.modBuffer = d["modulator"].wav,
                      !.carBuffer = d["carrier"].wav]
  ELSE t

\* one downloadAndConvert call moves to nd; Promise.all and the task follow
DlStep(j, a, nd) ==
  LET d == [dl[j] EXCEPT ![a] = nd]
      t == PromiseAll(task[j], d)
  IN /\ dl' = [dl EXCEPT ![j] = IF t.pc = "downloading" THEN d
                               ELSE [b \in Attachments |->
                                       IF InProgress(d[b]) THEN d[b] ELSE DlIdle]]
     /\ TaskStep(j, t)
  /\ UNCHANGED <<eng, received, inter, processQueue, startOrder, other, helper, procvars>>

Reject(d, step) == [d EXCEPT !.pc = "rejected", !.failed = step]

\* fetch(url), res.arrayBuffer() and writeFile(inputPath) settle (lines 68-70);
\* when all three succeed FFmpeg is started (lines 72-91)
FetchSettle(j, a) ==
  /\ dl[j][a].pc = "fetching"
  /\ \E ok \in BOOLEAN :
       DlStep(j, a, IF ok THEN [dl[j][a] EXCEPT !.pc = "converting"] ELSE Reject(dl[j][a], "download"))

\* FFmpeg emits 'end' or 'error'; the handler runs up to its first await
FfmpegSettle(j, a) ==
  /\ dl[j][a].pc = "converting"
  /\ \E ok \in BOOLEAN :
       DlStep(j, a, [dl[j][a] EXCEPT !.pc = IF ok THEN "finishing" ELSE "failing"])

\* the 'end' handler finishes (lines 82-89): readFile, unlink, unlink, then
\* resolve(wavBuffer), or reject if one of them failed
FinishSettle(j, a) ==
  /\ dl[j][a].pc = "finishing"
  /\ \/ \E wav \in ConvertedBuffers : DlStep(j, a, [dl[j][a] EXCEPT !.pc = "resolved", !.wav = wav])
     \/ DlStep(j, a, Reject(dl[j][a], "convert"))

\* the 'error' handler finishes (lines 77-79): unlink, unlink, reject(err)
FailSettle(j, a) ==
  /\ dl[j][a].pc = "failing"
  /\ DlStep(j, a, Reject(dl[j][a], "convert"))

\* editReply("Processing...") settles; on success runVocoder is called (lines 179-182)
Status2Settle(j) ==
  /\ task[j].pc = "status2"
  /\ \E ok \in BOOLEAN :
       IF ok
       THEN /\ eng' = runVocoder(task[j].modBuffer, task[j].carBuffer,
                                 [given |-> TRUE, value |-> task[j].widthVal], j)
            /\ TaskStep(j, [task[j] EXCEPT !.pc = "vocoding", !.modBuffer = Undecodable,
                                            !.carBuffer = Undecodable])
       ELSE /\ TaskStep(j, Catch(task[j], "status"))
            /\ UNCHANGED eng
  /\ UNCHANGED <<received, inter, processQueue, dl, startOrder, other, helper, procvars>>

\* the job step an engine error belongs to
EngineStep(error) ==
  IF error = "DecodeFailure" THEN "decode"
  ELSE IF error \in {"NotSupportedError", "GraphFailure"} THEN "graph"
  ELSE IF error = "RenderFailure" THEN "render"
  ELSE "encode"

\* the task after writeFile(outPath) settled (lines 187-195)
AfterWriteFile(t, ok) == IF ok THEN [t EXCEPT !.pc = "sending"] ELSE Catch(t, "write")

\* runVocoder settles; with the bytes the task names the output file and calls
\* writeFile (lines 182-187)
VocoderSettle(j) ==
  /\ task[j].pc = "vocoding"
  /\ eng.caller = j
  /\ eng.pc \in {"returned", "thrown"}
  /\ eng' = EngIdle
  /\ TaskStep(j, IF eng.pc = "returned"
                 THEN [task[j] EXCEPT !.pc = "writing", !.vocoderReturned = TRUE, !.outPath = TRUE]
                 ELSE Catch(task[j], EngineStep(eng.error)))
  /\ UNCHANGED <<received, inter, processQueue, dl, startOrder, other, helper, procvars>>

\* writeFile(outPath) settles; on success editReply with the file is called
WriteSettle(j) ==
  /\ task[j].pc = "writing"
  /\ \E ok \in BOOLEAN : TaskStep(j, AfterWriteFile(task[j], ok))
  /\ UNCHANGED <<eng, received, inter, processQueue, dl, startOrder, other, helper, procvars>>

\* a task whose failed reply goes straight to the finally
AfterSend_Swallowed(t, ok) == Finally([t EXCEPT !.replyFile = ok])

\* the task after editReply({content, files}) settled: the finally after the
\* reply with the file, the catch block after a failure (lines 192-206)
AfterSend(t, ok) ==
  IF ok THEN Finally([t EXCEPT !.replyFile = TRUE]) ELSE Catch(t, "send")

\* editReply({content, files}) settles (lines 192-195)
SendSettle(j) ==
  /\ task[j].pc = "sending"
  /\ \E ok \in BOOLEAN : TaskStep(j, AfterSend(task[j], ok))
  /\ UNCHANGED <<eng, received, inter, processQueue, dl, startOrder, other, helper, procvars>>

\* editReply(error message) settles either way (lines 199-201), then finally
ErrReplySettle(j) ==
  /\ task[j].pc = "errReply"
  /\ TaskStep(j, Finally(task[j]))
  /\ UNCHANGED <<eng, received, inter, processQueue, dl, startOrder, other, helper, procvars>>

\* unlink(outPath) settles either way (line 204); the task ends
CleanupSettle(j) ==
  /\ task[j].pc = "cleanup"
  /\ TaskStep(j, TaskDone(task[j]))
  /\ UNCHANGED <<eng, received, inter, processQueue, dl, startOrder, other, helper, procvars>>

\* a caller of the exported runVocoder other than the bot
DirectCall ==
  /\ UNCHANGED <<botvars, other, helper, procvars>>
  /\ eng.pc = "idle"
  /\ \E c \in EngineCalls : eng' = runVocoder(c.mod, c.car, c.width, 0)

\* the direct caller takes the result or the error; the invocation is over
DirectSettle ==
  /\ UNCHANGED <<botvars, other, helper, procvars>>
  /\ eng.pc \in {"returned", "thrown"}
  /\ eng.caller = 0
  /\ eng' = EngIdle

\* Two invocations of runVocoder in one process: each await of one lets the
\* other run.  The inputs are one frame long, of one or two channels.
PairBuffers ==
  {b \in ChannelBuffers :
     b.length = 1 /\ b.channelData \in {<<"tone">>, <<"tone", "noise">>, <<"tone", "silence">>}}

PairCalls ==
  {[mod |-> m, car |-> c, width |-> w] :
     m \in PairBuffers, c \in PairBuffers,
     w \in {[given |-> FALSE, value |-> 0], [given |-> TRUE, value |-> MaxWidth]}}

FirstCall ==
  /\ UNCHANGED <<botvars, other, helper, procvars>>
  /\ eng.pc = "idle"
  /\ \E c \in PairCalls : eng' = runVocoder(c.mod, c.car, c.width, 0)

SecondCall ==
  /\ UNCHANGED <<botvars, eng, helper, procvars>>
  /\ other.pc = "idle"
  /\ \E c \in PairCalls : other' = runVocoder(c.mod, c.car, c.width, 0)

SecondDecodeModSettle ==
  /\ UNCHANGED <<botvars, eng, helper, procvars>>
  /\ other.pc = "decodeMod"
  /\ other' = AfterDecodeMod(other)

SecondDecodeCarSettle ==
  /\ UNCHANGED <<botvars, eng, helper, procvars>>
  /\ other.pc = "decodeCar"
  /\ \E built \in BOOLEAN : other' = AfterDecodeCar(other, built)

SecondRenderSettle ==
  /\ UNCHANGED <<botvars, eng, helper, procvars>>
  /\ other.pc = "rendering"
  /\ \E ok \in BOOLEAN : other' = AfterRender(other, ok)

SecondEncodeSettle ==
  /\ UNCHANGED <<botvars, eng, helper, procvars>>
  /\ other.pc = "encoding"
  /\ \E ok \in BOOLEAN : other' = AfterEncode(other, ok)

\* the second caller takes the result or the error
SecondSettle ==
  /\ UNCHANGED <<botvars, eng, helper, procvars>>
  /\ other.pc \in {"returned", "thrown"}
  /\ other' = EngIdle

\* ------------------------------------------------------------------------
\* The process (index.js): "ready" handler, cleanTempDir, shutdownCleanup,
\* and the registration of the command
\* ------------------------------------------------------------------------
Files == 1..MaxFiles

\* line 53
TenMinutes == 10 * 60 * 1000

\* now - fileStat.mtimeMs of a file: young, exactly ten minutes, older
Ages == {0, TenMinutes, TenMinutes + 1}

\* a file is absent (never there), present, unlinked by the bot, or gone
\* (removed by someone else)
NoFile == [state |-> "absent", age |-> 0]

Present(dir, f) == dir[f].state = "present"

\* readdir(TEMP_DIR): the names of the files present
Listing(dir) ==
  LET present == {f \in Files : Present(dir, f)}
  IN [i \in 1..Cardinality(present) |->
        CHOOSE f \in present : Cardinality({g \in present : g < f}) = i - 1]

\* skipped: the call whose failure made cleanTempDir give up, if one did
CleanIdle == [pc |-> "idle", files |-> <<>>, skipped |-> "none", unlinkFailed |-> FALSE]

ShutdownIdle == [pc |-> "idle", files |-> <<>>, by |-> "none"]

Signals == {"SIGINT", "SIGTERM"}

\* a file left in TEMP_DIR by an earlier run, found there when the bot starts
Leftover ==
  /\ proc = "running" /\ clean.pc = "idle" /\ shutdown.pc = "idle"
  /\ \E f \in Files, age \in Ages :
       /\ tempDir[f].state = "absent"
       /\ tempDir' = [tempDir EXCEPT ![f] = [state |-> "present", age |-> age]]
  /\ UNCHANGED <<botvars, eng, other, helper, command, proc, clean, shutdown>>

\* someone else removes a file while a scan is running
Disappear ==
  /\ proc = "running"
  /\ clean.pc \in {"stat", "unlink"} \/ shutdown.pc = "unlinking"
  /\ \E f \in Files :
       /\ Present(tempDir, f)
       /\ tempDir' = [tempDir EXCEPT ![f].state = "gone"]
  /\ UNCHANGED <<botvars, eng, other, helper, command, proc, clean, shutdown>>

\* "ready" is emitted: the handler calls ensureTempDir (lines 117-118, 38-39)
ReadyEvent ==
  /\ proc = "running" /\ clean.pc = "idle"
  /\ clean' = [clean EXCEPT !.pc = "mkdir"]
  /\ UNCHANGED <<botvars, eng, other, helper, command, tempDir, proc, shutdown>>

\* mkdir settles; on success cleanTempDir is called and awaits readdir (lines 119, 45);
\* on failure the handler ends with the error
MkdirSettle ==
  /\ proc = "running" /\ clean.pc = "mkdir"
  /\ \E ok \in BOOLEAN : clean' = [clean EXCEPT !.pc = IF ok THEN "readdir" ELSE "failed"]
  /\ UNCHANGED <<botvars, eng, other, helper, command, tempDir, proc, shutdown>>

\* the loop of cleanTempDir at its next file (line 48): stat is called, or the loop
\* is over, cleanTempDir returns and the handler goes on to rest.put (lines 120-144)
NextFile(c) == [c EXCEPT !.pc = IF c.files = <<>> THEN "register" ELSE "stat"]

\* an error inside the try block (lines 57-59): the scan is given up, cleanTempDir
\* returns and the handler goes on to rest.put
Skipped(c, call) == [c EXCEPT !.pc = "register", !.skipped = call, !.files = <<>>]

\* readdir settles (lines 45-48)
ReaddirSettle ==
  /\ proc = "running" /\ clean.pc = "readdir"
  /\ \E ok \in BOOLEAN :
       clean' = IF ok THEN NextFile([clean EXCEPT !.files = Listing(tempDir)])
                ELSE Skipped(clean, "readdir")
  /\ UNCHANGED <<botvars, eng, other, helper, command, tempDir, proc, shutdown>>

\* line 53
Old(age) == age > TenMinutes

\* stat(fullPath) settles (lines 50-54): it fails for a file that is no longer
\* there and may fail for one that is
StatSettle ==
  /\ proc = "running" /\ clean.pc = "stat"
  /\ LET f == Head(clean.files) IN
       \E ok \in BOOLEAN :
         clean' = IF ~ok \/ ~Present(tempDir, f) THEN Skipped(clean, "stat")
                  ELSE IF Old(tempDir[f].age) THEN [clean EXCEPT !.pc = "unlink"]
                  ELSE NextFile([clean EXCEPT !.files = Tail(clean.files)])
  /\ UNCHANGED <<botvars, eng, other, helper, command, tempDir, proc, shutdown>>

\* unlink(fullPath).catch(() => {}) settles (line 54)
UnlinkSettle ==
  /\ proc = "running" /\ clean.pc = "unlink"
  /\ LET f == Head(clean.files) IN
       \E ok \in BOOLEAN :
         LET removed == ok /\ Present(tempDir, f) IN
         /\ tempDir' = IF removed THEN [tempDir EXCEPT ![f].state = "unlinked"] ELSE tempDir
         /\ clean' = NextFile([clean EXCEPT !.files = Tail(clean.files),
                                            !.unlinkFailed = @ \/ (~ok /\ Present(tempDir, f))])
  /\ UNCHANGED <<botvars, eng, other, helper, command, proc, shutdown>>

\* rest.put(Routes.applicationCommands(...)) settles (lines 143-148): the command
\* registered under the name replaces the one registered before
RegisterSettle ==
  /\ proc = "running" /\ clean.pc = "register"
  /\ \E ok \in BOOLEAN : command' = IF ok THEN IndexCommand ELSE command
  /\ clean' = [clean EXCEPT !.pc = "done"]
  /\ UNCHANGED <<botvars, eng, other, helper, tempDir, proc, shutdown>>

\* deploy-commands.js is run and its rest.put succeeds (lines 42-53)
DeployCommands ==
  /\ command # DeployCommand
  /\ command' = DeployCommand
  /\ UNCHANGED <<botvars, eng, other, helper, tempDir, proc, clean, shutdown>>

\* SIGINT or SIGTERM arrives (lines 222-223): the listener replaces the default
\* action of the signal; shutdownCleanup is called and awaits readdir (line 215)
ReceiveSignal(sig) ==
  /\ proc = "running" /\ shutdown.pc \in {"idle", "done"}
  /\ shutdown' = [pc |-> "readdir", files |-> <<>>, by |-> sig]
  /\ UNCHANGED <<botvars, eng, other, helper, command, tempDir, proc, clean>>

\* the loop of shutdownCleanup at its next file (line 216)
NextUnlink(c) == [c EXCEPT !.pc = IF c.files = <<>> THEN "done" ELSE "unlinking"]

\* readdir settles in shutdownCleanup (lines 215-219)
ShutdownReaddirSettle ==
  /\ proc = "running" /\ shutdown.pc = "readdir"
  /\ \E ok \in BOOLEAN :
       shutdown' = IF ok THEN NextUnlink([shutdown EXCEPT !.files = Listing(tempDir)])
                   ELSE [shutdown EXCEPT !.pc = "done"]
  /\ UNCHANGED <<botvars, eng, other, helper, command, tempDir, proc, clean>>

\* unlink(...).catch(() => {}) settles in shutdownCleanup (line 217)
ShutdownUnlinkSettle ==
  /\ proc = "running" /\ shutdown.pc = "unlinking"
  /\ LET f == Head(shutdown.files) IN
       \E ok \in BOOLEAN :
         tempDir' = IF ok /\ Present(tempDir, f) THEN [tempDir EXCEPT ![f].state = "unlinked"]
                    ELSE tempDir
  /\ shutdown' = NextUnlink([shutdown EXCEPT !.files = Tail(shutdown.files)])
  /\ UNCHANGED <<botvars, eng, other, helper, command, proc, clean>>

\* the process is about to end and emits 'exit' (line 224): the listener runs
\* shutdownCleanup up to its first await, then the process ends and nothing
\* that was awaited is resumed
ExitEvent ==
  /\ proc = "running"
  /\ proc' = "exited"
  /\ shutdown' = [shutdown EXCEPT !.pc = "abandoned",
                                  !.by = IF shutdown.by = "none" THEN "exit" ELSE shutdown.by]
  /\ clean' = IF clean.pc \in {"idle", "done", "failed"} THEN clean
              ELSE [clean EXCEPT !.pc = "abandoned"]
  /\ UNCHANGED <<botvars, eng, other, helper, command, tempDir>>

\* no helper call made
HelperIdle == [fn |-> "none", input |-> 0, output |-> FZero, outputs |-> <<>>]

\* The inputs at which the tables are read, in half steps: the sampled entries
\* and the points halfway between two neighbouring sampled entries
SampledInputs ==
  {h \in UNION {{2 * i, 2 * i + 1} : i \in DOMAIN getAbsCurve} :
     h % 2 = 1 => (h \div 2) + 1 \in DOMAIN getAbsCurve}

\* the rectifier's table, read by a WaveShaperNode at one input
ReadAbsCurve ==
  /\ UNCHANGED <<botvars, eng, other, procvars>>
  /\ \E h \in SampledInputs :
       helper' = [fn |-> "getAbsCurve", input |-> h, output |-> WaveShaper(getAbsCurve, h),
                  outputs |-> <<>>]

\* the limiter's table, read by a WaveShaperNode at one input
ReadSoftClipCurve ==
  /\ UNCHANGED <<botvars, eng, other, procvars>>
  /\ \E h \in SampledInputs :
       helper' = [fn |-> "getSoftClipCurve", input |-> h,
                  output |-> WaveShaper(getSoftClipCurve, h), outputs |-> <<>>]

\* line 135: logFrequencies(80, 7000, bands)
CallLogFrequencies ==
  /\ UNCHANGED <<botvars, eng, other, procvars>>
  /\ helper' = [fn |-> "logFrequencies", input |-> bands, output |-> FZero,
                outputs |-> logFrequencies(MinHz, MaxHz, bands)]

Init ==
  /\ eng = EngIdle
  /\ received = 0
  /\ inter = [j \in Jobs |-> "none"]
  /\ processQueue = <<>>
  /\ isProcessing = FALSE
  /\ immediates = 0
  /\ task = [j \in Jobs |-> TaskInit]
  /\ dl = [j \in Jobs |-> [a \in Attachments |-> DlIdle]]
  /\ startOrder = <<>>
  /\ other = EngIdle
  /\ helper = HelperIdle
  /\ command = IndexCommand
  /\ tempDir = [f \in Files |-> NoFile]
  /\ proc = "running"
  /\ clean = CleanIdle
  /\ shutdown = ShutdownIdle

EngineSteps == DecodeModSettle \/ DecodeCarSettle \/ RenderSettle \/ EncodeSettle

Next ==
  \/ Receive
  \/ \E j \in Jobs : DeferResolve(j)
  \/ \E j \in Jobs : DeferReject(j)
  \/ ImmediateRunQueue
  \/ \E j \in Jobs : Status1Settle(j)
  \/ \E j \in Jobs, a \in Attachments : FetchSettle(j, a)
  \/ \E j \in Jobs, a \in Attachments : FfmpegSettle(j, a)
  \/ \E j \in Jobs, a \in Attachments : FinishSettle(j, a)
  \/ \E j \in Jobs, a \in Attachments : FailSettle(j, a)
  \/ \E j \in Jobs : Status2Settle(j)
  \/ DecodeModSettle
  \/ DecodeCarSettle
  \/ RenderSettle
  \/ EncodeSettle
  \/ \E j \in Jobs : VocoderSettle(j)
  \/ \E j \in Jobs : WriteSettle(j)
  \/ \E j \in Jobs : SendSettle(j)
  \/ \E j \in Jobs : ErrReplySettle(j)
  \/ \E j \in Jobs : CleanupSettle(j)

Spec == Init /\ [][Next]_vars

EngineNext ==
  \/ DirectCall
  \/ DirectSettle
  \/ DecodeModSettle
  \/ DecodeCarSettle
  \/ RenderSettle
  \/ EncodeSettle

EngineSpec == Init /\ [][EngineNext]_vars

ConcurrentNext ==
  \/ FirstCall
  \/ DirectSettle
  \/ DecodeModSettle
  \/ DecodeCarSettle
  \/ RenderSettle
  \/ EncodeSettle
  \/ SecondCall
  \/ SecondDecodeModSettle
  \/ SecondDecodeCarSettle
  \/ SecondRenderSettle
  \/ SecondEncodeSettle
  \/ SecondSettle

ConcurrentSpec == Init /\ [][ConcurrentNext]_vars

HelperNext ==
  \/ ReadAbsCurve
  \/ ReadSoftClipCurve
  \/ CallLogFrequencies

HelperSpec == Init /\ [][HelperNext]_vars

ProcessNext ==
  \/ Leftover
  \/ Disappear
  \/ ReadyEvent
  \/ MkdirSettle
  \/ ReaddirSettle
  \/ StatSettle
  \/ UnlinkSettle
  \/ RegisterSettle
  \/ DeployCommands
  \/ \E sig \in Signals : ReceiveSignal(sig)
  \/ ShutdownReaddirSettle
  \/ ShutdownUnlinkSettle
  \/ ExitEvent

ProcessSpec == Init /\ [][ProcessNext]_vars

\* what was awaited settles while the process runs: every step of the handlers
\* is taken when it stays possible; signals, the end of the process and what
\* others do to the files and to the command are not
ProcessProgress ==
  \/ MkdirSettle
  \/ ReaddirSettle
  \/ StatSettle
  \/ UnlinkSettle
  \/ RegisterSettle
  \/ ShutdownReaddirSettle
  \/ ShutdownUnlinkSettle

FairProcessSpec == ProcessSpec /\ WF_vars(ProcessProgress)

\* the tasks settle and scheduled callbacks run: every step of the program other
\* than the arrival of interactions and the settling of deferReply is taken
\* when it stays possible
Progress ==
  \/ ImmediateRunQueue
  \/ \E j \in Jobs : Status1Settle(j)
  \/ \E j \in Jobs, a \in Attachments : FetchSettle(j, a)
  \/ \E j \in Jobs, a \in Attachments : FfmpegSettle(j, a)
  \/ \E j \in Jobs, a \in Attachments : FinishSettle(j, a)
  \/ \E j \in Jobs, a \in Attachments : FailSettle(j, a)
  \/ \E j \in Jobs : Status2Settle(j)
  \/ EngineSteps
  \/ \E j \in Jobs : VocoderSettle(j)
  \/ \E j \in Jobs : WriteSettle(j)
  \/ \E j \in Jobs : SendSettle(j)
  \/ \E j \in Jobs : ErrReplySettle(j)
  \/ \E j \in Jobs : CleanupSettle(j)

FairSpec == Spec /\ WF_vars(Progress)

\* ------------------------------------------------------------------------
\* Properties
\* ------------------------------------------------------------------------
Started == {startOrder[i] : i \in 1..Len(startOrder)}

Position(j) == CHOOSE i \in 1..Len(startOrder) : startOrder[i] = j

\* C1: at most one queued job task is executing at any time
C1_AtMostOneExecuting == Cardinality({j \in Jobs : Executing(j)}) <= 1

\* a task is executing while another task waits in the queue
C1_Witness == \E j \in Jobs : Executing(j) /\ Len(processQueue) > 0

\* C2: jobs run in arrival order: if A is received before B (A's id is smaller),
\* B's task is not started unless A's task was started before it
C2_ArrivalOrder ==
  \A a \in Jobs, b \in Jobs :
    (a < b /\ b \in Started) => (a \in Started /\ Position(a) < Position(b))

\* C3: while a job's task is executing, no download or conversion begun by
\* another (earlier) job is still in progress
C3_PreviousJobComplete ==
  \A j \in Jobs, k \in Jobs :
    (j # k /\ Executing(j)) => \A a \in Attachments : ~InProgress(dl[k][a])

InQueue(k) == \E i \in 1..Len(processQueue) : processQueue[i] = k

SomeFailed == \E j \in Jobs : task[j].failedStep # "none"

\* C4: a failing job does not stall the queue: no task is started twice, the
\* processing flag is down whenever no task is executing, a job leaves the queue
\* only by being started, and once a task has failed the jobs waiting in the
\* queue are all taken from it
C4_NoStall ==
  /\ [](\A i \in 1..Len(startOrder), k \in 1..Len(startOrder) :
          startOrder[i] = startOrder[k] => i = k)
  /\ []((\A j \in Jobs : ~Executing(j)) => ~isProcessing)
  /\ [][\A k \in Jobs : (InQueue(k) /\ ~InQueue(k)') => Executing(k)']_vars
  /\ (SomeFailed /\ processQueue # <<>>) ~> (processQueue = <<>>)

\* a job failed and ended, and the job queued behind it was started after it
C4_Witness ==
  \E j \in Jobs, k \in Jobs :
    /\ task[j].pc = "done" /\ task[j].failedStep = "failed"
    /\ Len(startOrder) = 2 /\ startOrder[1] = j /\ startOrder[2] = k

\* C5: a width outside [0,100] makes runVocoder raise ValidationError before
\* any input is decoded and before a context or a node is created
C5_InvalidWidthRejected ==
  (eng.pc # "idle" /\ eng.widthPercent \notin MinWidth..MaxWidth) =>
    /\ eng.pc = "thrown" /\ eng.error = "ValidationError"
    /\ eng.decodeCalls = 0 /\ ~eng.ctxCreated /\ eng.bandNodes = <<>>

DurationNotPositive(e) ==
  LET d == MathMin(Duration(e.modDecoded), Duration(e.carDecoded))
  IN IsZero(d) \/ d.neg

\* C6: once both inputs are decoded and the computed duration is zero or
\* negative, runVocoder has raised ValidationError, built no graph and rendered nothing
C6_EmptyInputRejected ==
  (eng.modDecoded.decodable /\ eng.carDecoded.decodable /\ DurationNotPositive(eng)) =>
    /\ eng.pc = "thrown" /\ eng.error = "ValidationError"
    /\ eng.bandNodes = <<>> /\ eng.renderedLength = -1

ListedSteps == {"mime", "download", "convert", "decode", "graph", "render", "encode", "write"}

\* C7 as stated: when a listed step of a job fails, runVocoder returned no bytes
\* and the reply carries no file
C7_FailedJobNoOutput ==
  \A j \in Jobs :
    task[j].failedStep \in ListedSteps => (~task[j].vocoderReturned /\ ~task[j].replyFile)

\* C7 amended: when a listed step of a job fails the reply carries no file, and
\* runVocoder returned no bytes unless the step that failed is writing the result
C7_FailedJobNoFile ==
  \A j \in Jobs :
    /\ task[j].failedStep \in ListedSteps => ~task[j].replyFile
    /\ task[j].failedStep \in (ListedSteps \ {"write"}) => ~task[j].vocoderReturned

\* writing the result failed after runVocoder returned its bytes
C7_Witness ==
  \E j \in Jobs : task[j].failedStep = "write" /\ task[j].vocoderReturned /\ ~task[j].replyFile

\* floor(length * 48000 / sampleRate), in integers
ExactFrames(decoded) == (decoded.length * WORK_RATE) \div decoded.sampleRate

Min(a, b) == IF a < b THEN a ELSE b

\* C8: the rendered length is floor(min(modulator duration, carrier duration) * 48000)
C8_OutputLength ==
  eng.renderedLength >= 0 =>
    eng.renderedLength = Min(ExactFrames(eng.modDecoded), ExactFrames(eng.carDecoded))

QComputed == eng.pc \in {"rendering", "encoding", "returned"}

\* C9: for a width in 0..100 the Q-Factor is 15 at 0, 0.5 at 100, within
\* [0.5, 15], and no larger than the Q-Factor of any smaller width
C9_QFactor ==
  (QComputed /\ eng.widthPercent \in MinWidth..MaxWidth) =>
    /\ eng.widthPercent = 0 => eng.qFactor = FromInt(15)
    /\ eng.widthPercent = 100 => eng.qFactor = FDiv(FromInt(1), FromInt(2))
    /\ FLeq(FDiv(FromInt(1), FromInt(2)), eng.qFactor) /\ FLeq(eng.qFactor, FromInt(15))
    /\ \A w \in MinWidth..MaxWidth :
         /\ w <= eng.widthPercent => FLeq(eng.qFactor, QFactorOf[w])
         /\ w >= eng.widthPercent => FLeq(QFactorOf[w], eng.qFactor)

\* the graph was built for width 100
C9_Witness == eng.pc = "rendering" /\ eng.widthPercent = 100 /\ eng.caller = 0

\* C10: a job builds exactly 16 bands; the modulator and the carrier bandpass of
\* every band carry the job's one Q-Factor and the band's center frequency
C10_Bands ==
  QComputed =>
    /\ Len(eng.bandNodes) = 16
    /\ \A k \in 1..Len(eng.bandNodes) :
         /\ eng.bandNodes[k].modFilter.Q = eng.qFactor
         /\ eng.bandNodes[k].carFilter.Q = eng.qFactor
         /\ eng.bandNodes[k].modFilter.frequency = eng.bandNodes[k].carFilter.frequency
         /\ eng.bandNodes[k].modFilter.frequency = frequencies[k]

\* a graph with its bands stands built, for a width that is not the default
C10_Witness == eng.pc = "rendering" /\ Len(eng.bandNodes) > 0 /\ eng.widthPercent = 0

\* where the output of node n goes
Succ(g, n) == {[to |-> c.to, param |-> c.param] : c \in {d \in g.connections : d.from = n}}

Input(name, band) == [to |-> NodeId(name, band), param |-> ""]

\* C11: in a built graph every band is wired modulator source -> bandpass ->
\* rectifier -> 40 Hz lowpass -> the gain parameter of the band's gain stage, and
\* carrier source -> bandpass -> the band's gain stage -> summing bus; no
\* connection joins two bands, and the connections that leave or enter a band
\* come from one of the two sources or go to the summing bus
C11_BandWiring ==
  QComputed =>
    LET g == eng.graph IN
    /\ \A k \in 1..bands :
         /\ Succ(g, NodeId("modFilter", k)) = {Input("rectifier", k)}
         /\ Succ(g, NodeId("rectifier", k)) = {Input("envelope", k)}
         /\ Succ(g, NodeId("envelope", k)) = {[to |-> NodeId("bandGain", k), param |-> "gain"]}
         /\ Succ(g, NodeId("carFilter", k)) = {Input("bandGain", k)}
         /\ Succ(g, NodeId("bandGain", k)) = {Input("summingGain", 0)}
         /\ g.nodes[NodeId("modFilter", k)].type = "bandpass"
         /\ g.nodes[NodeId("carFilter", k)].type = "bandpass"
         /\ g.nodes[NodeId("rectifier", k)].curve = "getAbsCurve"
         /\ g.nodes[NodeId("envelope", k)].type = "lowpass"
         /\ g.nodes[NodeId("envelope", k)].frequency = 40
    /\ Succ(g, NodeId("modSource", 0)) = {Input("modFilter", k) : k \in 1..bands}
    /\ Succ(g, NodeId("carSource", 0)) = {Input("carFilter", k) : k \in 1..bands}
    /\ \A c \in g.connections :
         c.from.band # c.to.band =>
           \/ c.from \in {NodeId("modSource", 0), NodeId("carSource", 0)}
           \/ (c.to = NodeId("summingGain", 0) /\ c.param = "")

\* a graph stands built with the connections of all its bands, for two-channel inputs
C11_Witness ==
  /\ eng.pc = "rendering"
  /\ Cardinality(eng.graph.connections) > bands
  /\ Len(eng.modDecoded.channelData) = 2 /\ Len(eng.carDecoded.channelData) = 2

\* the nodes whose output goes to the input of node n
Pred(g, n) == {c.from : c \in {d \in g.connections : d.to = n /\ d.param = ""}}

\* C12: in a built graph the output of every band's gain stage goes to the summing
\* gain (1.0) and nowhere else, and from there the one way on is compressor ->
\* makeup gain (4.0) -> soft-clip limiter -> destination: each stage has that one
\* successor and that one source of input, so every path from a band to the
\* destination passes each stage once, in this order
C12_OutputChain ==
  QComputed =>
    LET g == eng.graph IN
    /\ \A k \in 1..bands : Succ(g, NodeId("bandGain", k)) = {Input("summingGain", 0)}
    /\ Pred(g, NodeId("summingGain", 0)) = {NodeId("bandGain", k) : k \in 1..bands}
    /\ Succ(g, NodeId("summingGain", 0)) = {Input("compressor", 0)}
    /\ Pred(g, NodeId("compressor", 0)) = {NodeId("summingGain", 0)}
    /\ Succ(g, NodeId("compressor", 0)) = {Input("makeupGain", 0)}
    /\ Pred(g, NodeId("makeupGain", 0)) = {NodeId("compressor", 0)}
    /\ Succ(g, NodeId("makeupGain", 0)) = {Input("limiter", 0)}
    /\ Pred(g, NodeId("limiter", 0)) = {NodeId("makeupGain", 0)}
    /\ Succ(g, NodeId("limiter", 0)) = {Input("destination", 0)}
    /\ Pred(g, NodeId("destination", 0)) = {NodeId("limiter", 0)}
    /\ g.nodes[NodeId("summingGain", 0)].gain = 1
    /\ g.nodes[NodeId("makeupGain", 0)].gain = 4
    /\ g.nodes[NodeId("limiter", 0)].curve = "getSoftClipCurve"

\* a graph whose limiter feeds the destination has been rendered
C12_Witness ==
  /\ eng.pc = "encoding"
  /\ Connection(NodeId("limiter", 0), NodeId("destination", 0), "") \in eng.graph.connections

\* ------------------------------------------------------------------------
\* C13: runVocoder is deterministic: two invocations given identical modulator
\* bytes, carrier bytes and width that both return, return identical bytes,
\* whether one ran before the other or the two were interleaved
Returned(e) == e.pc = "returned"

SameInputs(a, b) ==
  /\ a.modArrayBuf = b.modArrayBuf
  /\ a.carArrayBuf = b.carArrayBuf
  /\ a.widthPercent = b.widthPercent

AgreeOnChannel0(a, b) ==
  /\ a.length = b.length
  /\ a.sampleRate = b.sampleRate
  /\ a.channelData[1] = b.channelData[1]

C14_OnlyChannelZero ==
  (/\ Returned(eng) /\ Returned(other)
   /\ AgreeOnChannel0(eng.modDecoded, other.modDecoded)
   /\ AgreeOnChannel0(eng.carDecoded, other.carDecoded)
   /\ eng.widthPercent = other.widthPercent)
  => eng.wavData = other.wavData

\* ------------------------------------------------------------------------
\* C15: an invocation of runVocoder owns its context and nodes: two invocations
\* in progress never hold the same context, and what an invocation built and
\* returns is what its own inputs give, whatever the other invocation did at
\* the awaits in between
HoldsContext(e) == e.ctx # 0

GraphAlone(e) ==
  BuildGraph(e.modArrayBuf, e.carArrayBuf, frequencies, QFactorOf[e.widthPercent])

ResultAlone(e) ==
  LET built    == [e EXCEPT !.lengthSamples = lengthSamples(e.modArrayBuf, e.carArrayBuf),
                            !.graph = GraphAlone(e)]
      rendered == [built EXCEPT !.renderedBuffer = Render(built)]
  IN Encode(rendered)

Rendered == eng.pc \in {"encoding", "returned"}

StrictlyInside(v) == FLess(MathAbs(v), FromInt(1))

EntriesStrictlyInside == \A i \in DOMAIN getSoftClipCurve : StrictlyInside(getSoftClipCurve[i])

C16_PeakBounded ==
  /\ EntriesStrictlyInside
  /\ Rendered =>
       /\ Pred(eng.graph, NodeId("destination", 0)) = {NodeId("limiter", 0)}
       /\ eng.graph.nodes[NodeId("limiter", 0)].curve = "getSoftClipCurve"
       /\ \A ch \in DOMAIN eng.renderedBuffer.channelData :
            /\ eng.renderedBuffer.channelData[ch].bounded
            /\ FLeq(eng.renderedBuffer.channelData[ch].peak, FromInt(1))

\* a two-channel carrier shaped by a one-channel modulator has been rendered
C16_Witness ==
  /\ Rendered
  /\ eng.renderedBuffer.channelData[1].kind = "signal"
  /\ eng.carDecoded.channelData = <<"tone", "noise">>
  /\ ~IsZero(eng.renderedBuffer.channelData[1].peak)

\* ------------------------------------------------------------------------
\* C17: an all-zero modulator with any carrier renders an all-zero output
AllZero(decoded) ==
  \A ch \in DOMAIN decoded.channelData : decoded.channelData[ch] = "silence"

C17_SilentModulator ==
  (Rendered /\ AllZero(eng.modDecoded)) =>
    \A ch \in DOMAIN eng.renderedBuffer.channelData :
      eng.renderedBuffer.channelData[ch].kind = "zero"

\* ------------------------------------------------------------------------
\* C18: the table of getAbsCurve, read as a shaping curve over [-1,1] (entry 0
\* at x = -1, entry N-1 at x = +1, linear interpolation in between), gives |x|
\* within one table step, 2/N, at every sampled x, x = 0 and x = +1 included
TableStep == FDiv(FromInt(2), FromInt(CurveSize))

\* |x| for the input h half steps above -1: x = h / (N - 1) - 1
AbsOfInput(h) ==
  FDiv(FromInt(IF h < CurveSize - 1 THEN CurveSize - 1 - h ELSE h - (CurveSize - 1)),
       FromInt(CurveSize - 1))

C18_AbsCurve ==
  helper.fn = "getAbsCurve" =>
    FLeq(MathAbs(FSub(helper.output, AbsOfInput(helper.input))), TableStep)

\* the table has been read at x = 0, where it gives half a step, not 0
C18_Witness ==
  /\ helper.fn = "getAbsCurve"
  /\ helper.input = ZeroInput
  /\ helper.output = FDiv(FromInt(1), FromInt(CurveSize))

\* ------------------------------------------------------------------------
\* C19: the table of getSoftClipCurve, read as a shaping curve over [-1,1], is
\* odd-symmetric and passes through zero: curve(-x) = -curve(x) at every
\* sampled x, and curve(0) = 0
Mirror(h) == 2 * (CurveSize - 1) - h

C19_OddSymmetric ==
  helper.fn = "getSoftClipCurve" =>
    /\ IsZero(FAdd(WaveShaper(getSoftClipCurve, Mirror(helper.input)), helper.output))
    /\ helper.input = ZeroInput => IsZero(helper.output)

\* ------------------------------------------------------------------------
\* C20: logFrequencies(80, 7000, 16) returns exactly 16 strictly increasing
\* frequencies, the first 80, the last 7000, the ratios of consecutive
\* frequencies all equal
\* f[k+1] / f[k] = f[k+2] / f[k+1], multiplied out: both sides of
\* f[k+1] * f[k+1] = f[k] * f[k+2]
Square(f, k) == FMulFull(f[k + 1], f[k + 1])

Around(f, k) == FMulFull(f[k], f[k + 2])

StrictlyIncreasing(f) == \A k \in 1..(Len(f) - 1) : FLess(f[k], f[k + 1])

\* as stated: the end points and the ratios compared as doubles
C20_LogFrequencies ==
  helper.fn = "logFrequencies" =>
    LET f == helper.outputs IN
    /\ Len(f) = bands
    /\ StrictlyIncreasing(f)
    /\ f[1] = FromInt(MinHz)
    /\ f[bands] = FromInt(MaxHz)
    /\ \A k \in 1..(bands - 2) : Around(f, k) = Square(f, k)

\* 2^-40, far above the rounding of Math.log, Math.exp and the arithmetic
Rounding == FDiv(FDiv(FromInt(1), FromInt(1048576)), FromInt(1048576))

\* x and y differ by at most 2^-40 of y
Near(x, y) == FLeq(MathAbs(FSub(x, y)), FMulFull(Rounding, MathAbs(y)))

\* C20, amended: 16 strictly increasing frequencies, the first 80 and the last
\* 7000 up to floating-point rounding, the ratios of consecutive frequencies
\* equal up to floating-point rounding
C20_LogFrequenciesRounded ==
  helper.fn = "logFrequencies" =>
    LET f == helper.outputs IN
    /\ Len(f) = bands
    /\ StrictlyIncreasing(f)
    /\ Near(f[1], FromInt(MinHz))
    /\ Near(f[bands], FromInt(MaxHz))
    /\ \A k \in 1..(bands - 2) : Near(Around(f, k), Square(f, k))

\* the call returned, its first frequency just below 80
C20_Witness ==
  /\ helper.fn = "logFrequencies"
  /\ Len(helper.outputs) = bands
  /\ FLess(helper.outputs[1], FromInt(MinHz))

\* the command as registered offers an optional integer option "width" limited
\* to MinWidth..MaxWidth
OffersWidth(cmd) ==
  \E o \in cmd :
    /\ o.name = "width" /\ o.type = "integer" /\ ~o.required
    /\ o.min = MinWidth /\ o.max = MaxWidth

\* C21: the /vocode command offers an optional width option limited to 0..100,
\* and the width handed to runVocoder for a job is an integer in 0..100: the
\* user's value when given, otherwise 50
C21_WidthOption ==
  /\ OffersWidth(command)
  /\ \A j \in Jobs :
       (eng.caller = j /\ eng.pc # "idle") =>
         /\ eng.widthPercent \in MinWidth..MaxWidth
         /\ eng.widthPercent = IF task[j].widthOption.given THEN task[j].widthOption.value
                               ELSE DefaultWidth

\* the step moves x from a value other than v to v
Becomes(x, y, v) == x # v /\ y = v

\* download after validation, conversion after download, for each attachment
DownloadInOrder(j) ==
  \A a \in Attachments :
    /\ Becomes(dl[j][a].pc, dl'[j][a].pc, "fetching") =>
         task[j].pc = "status1" /\ task[j].failedStep = "none"
    /\ Becomes(dl[j][a].pc, dl'[j][a].pc, "converting") => dl[j][a].pc = "fetching"
    /\ Becomes(dl[j][a].pc, dl'[j][a].pc, "resolved") =>
         /\ dl[j][a].pc = "finishing"
         /\ dl'[j][a].wav.decodable => dl'[j][a].wav.sampleRate = WORK_RATE

\* the task goes on to the vocoder only with both conversions done, and
\* runVocoder is called with their results
VocoderAfterConversions(j) ==
  /\ Becomes(task[j].pc, task'[j].pc, "status2") =>
       /\ task[j].pc = "downloading"
       /\ \A a \in Attachments : dl[j][a].pc \in {"resolved", "finishing"}
       /\ task'[j].modBuffer \in ConvertedBuffers /\ task'[j].carBuffer \in ConvertedBuffers
  /\ (eng'.caller = j /\ eng.caller # j) =>
       /\ task[j].pc = "status2" /\ task[j].failedStep = "none"
       /\ eng'.modArrayBuf = task[j].modBuffer /\ eng'.carArrayBuf = task[j].carBuffer

\* the file is written and sent only after runVocoder returned
DeliveryAfterVocoder(j) ==
  /\ Becomes(task[j].pc, task'[j].pc, "writing") =>
       task[j].pc = "vocoding" /\ eng.caller = j /\ eng.pc = "returned"
  /\ Becomes(task[j].pc, task'[j].pc, "sending") =>
       task[j].pc = "writing" /\ task[j].vocoderReturned
  /\ (task'[j].replyFile /\ ~task[j].replyFile) =>
       task[j].pc = "sending" /\ task[j].vocoderReturned /\ task[j].failedStep = "none"

\* C22: a job's steps run in the documented order: validation and download,
\* then conversion of both attachments to 48 kHz WAV, then the vocoder, then
\* encoding and delivery; runVocoder is called only after both conversions
\* succeeded and the success reply is sent only after runVocoder returned
C22_PipelineOrder ==
  [][\A j \in Jobs :
       DownloadInOrder(j) /\ VocoderAfterConversions(j) /\ DeliveryAfterVocoder(j)]_vars

\* a job went through every step: its success reply with the file was sent
C22_Witness ==
  \E j \in Jobs :
    task[j].pc = "cleanup" /\ task[j].replyFile /\ task[j].vocoderReturned

\* the task of job k was called, now or earlier
WasStarted(k) == k \in Started

\* C23: every task pushed onto processQueue is eventually started, exactly
\* once, provided every running task eventually settles: a waiting task always
\* has a running task or a scheduled runQueue call ahead of it, a task leaves
\* the queue only by being started and never returns to it, and every task in
\* the queue is eventually started
C23_EveryTaskStarted ==
  /\ []((processQueue # <<>> /\ ~isProcessing) => immediates > 0)
  /\ [](\A k \in Jobs :
          Cardinality({i \in 1..Len(startOrder) : startOrder[i] = k}) <= 1)
  /\ [][\A k \in Jobs :
          /\ (InQueue(k) /\ ~InQueue(k)') => (~WasStarted(k) /\ WasStarted(k)' /\ Executing(k)')
          /\ WasStarted(k) => ~InQueue(k)']_vars
  /\ \A k \in Jobs : InQueue(k) ~> WasStarted(k)

\* a task was pushed while another ran; that one has ended, the pushed task
\* waits and a runQueue call is scheduled
C23_Witness ==
  \E j \in Jobs, k \in Jobs :
    /\ task[j].pc = "done" /\ InQueue(k) /\ task[k].pc = "waiting"
    /\ ~isProcessing /\ immediates = 1

\* C24: at every return to the event loop, isProcessing is true exactly when a
\* job task is executing, and when it is false while processQueue is not empty
\* a runQueue call is already scheduled
C24_FlagAndSchedule ==
  /\ isProcessing <=> (\E j \in Jobs : Executing(j))
  /\ (~isProcessing /\ processQueue # <<>>) => immediates > 0

\* the executing task has just ended: the flag is down, no task is executing,
\* a task waits in the queue and the runQueue call for it is scheduled
C24_Witness ==
  /\ ~isProcessing /\ (\A j \in Jobs : ~Executing(j))
  /\ Len(processQueue) = 1 /\ immediates > 0

\* the temp files of job j on disk: raw_<id><ext> from writeFile(inputPath) until
\* a handler of FFmpeg has unlinked it, clean_<id>.wav once FFmpeg has ended,
\* vocoded_<id>.wav from writeFile(outPath) until the finally has unlinked it
TempFiles(j) ==
  {<<"raw", a>> : a \in {b \in Attachments : dl[j][b].pc \in {"converting", "finishing", "failing"}}}
  \cup {<<"clean", a>> : a \in {b \in Attachments : dl[j][b].pc = "finishing"}}
  \cup {<<"vocoded", "output">> : x \in {t \in {task[j]} : t.pc \in {"sending", "cleanup"}}}

\* C25: after a job's task has completed, with success or with a failure at
\* any step, none of the job's temp files remains
C25_NoTempFilesLeft ==
  \A j \in Jobs : task[j].pc = "done" => TempFiles(j) = {}

\* the success reply with the file was sent for the task
Succeeded(t) == t.replyFile

\* the catch block ran for the task: the error reply was attempted
ErrorReplied(t) == t.failedStep # "none"

\* C26: a /vocode interaction whose task runs ends with exactly one final
\* outcome: the success reply with the file or an attempted error reply, never
\* both and never neither
C26_OneOutcome ==
  [][\A j \in Jobs :
       (Executing(j) /\ task'[j].pc = "done") =>
         /\ Succeeded(task[j]) # ErrorReplied(task[j])
         /\ Succeeded(task[j]) => task'[j].failedStep = "none"
         /\ ErrorReplied(task[j]) => task'[j].failedStep = "failed"]_vars

\* one task has ended after its success reply and another after its error reply
C26_Witness ==
  \E j \in Jobs, k \in Jobs :
    /\ task[j].pc = "done" /\ task[j].failedStep = "none"
    /\ task[k].pc = "done" /\ task[k].failedStep = "failed"

\* a content type that is missing, or neither audio/* nor video/*
Unsupported(type) == type = "null" \/ type \notin {"audio/", "video/"}

\* the task called for attachments of which one has an unsupported type goes
\* straight to the error reply
RejectedAtStart ==
  \A modType \in ContentTypes, carType \in ContentTypes, width \in WidthOptions(IndexCommand) :
    (Unsupported(modType) \/ Unsupported(carType)) =>
      LET t == TaskStart(TaskInit, modType, carType, width)
      IN t.pc = "errReply" /\ t.failedStep = "mime"

\* C27: a job with an attachment whose content type is missing or neither
\* audio/* nor video/* is rejected before any work: nothing is downloaded, no
\* temp file is created, runVocoder is not called, and the error reply is sent
C27_InvalidTypeRejected ==
  /\ [](RejectedAtStart)
  /\ [](\A j \in Jobs :
          task[j].failedStep = "mime" =>
            /\ task[j].pc = "errReply"
            /\ \A a \in Attachments : dl[j][a] = DlIdle
            /\ TempFiles(j) = {}
            /\ ~task[j].outPath /\ ~task[j].vocoderReturned /\ ~task[j].replyFile
            /\ eng.caller # j)
  /\ [][\A j \in Jobs :
          task[j].failedStep = "mime" =>
            /\ task'[j].pc \in {"errReply", "done"}
            /\ dl'[j] = dl[j]
            /\ eng'.caller # j]_vars

\* a job was rejected for its content type and its error reply is under way
C27_Witness ==
  \E j \in Jobs : task[j].failedStep = "mime" /\ task[j].pc = "errReply"

\* cleanTempDir has returned
CleanReturned == clean.pc \in {"register", "done"}

\* C28: cleanTempDir deletes every file older than 10 minutes and leaves every
\* younger file unchanged, also when a file disappears or cannot be stat'ed
\* during the scan: once it has returned after a readdir that succeeded, with
\* no unlink of its own having failed, no file older than 10 minutes is left
\* and no file it unlinked was younger
C28_OldFilesDeleted ==
  (CleanReturned /\ clean.skipped # "readdir" /\ ~clean.unlinkFailed) =>
    \A f \in Files :
      /\ Present(tempDir, f) => ~Old(tempDir[f].age)
      /\ tempDir[f].state = "unlinked" => Old(tempDir[f].age)

\* shutdownCleanup was called for a signal or for 'exit'
CleanupRequested == shutdown.by # "none"

\* C29: after SIGINT, SIGTERM or 'exit', shutdownCleanup has removed every file
\* in the temp directory by the time the process ends, and the process does end
\* after SIGINT or SIGTERM
C29_ShutdownCleans ==
  /\ []((proc = "exited" /\ CleanupRequested) => \A f \in Files : ~Present(tempDir, f))
  /\ (shutdown.by \in Signals) ~> (proc = "exited")

============================================================================
